---- MODULE Spec2Model ----
(***************************************************************************)
(* HybridCloudSim: discrete-event model of the hybrid quantum/classical    *)
(* cloud simulator.  Simulated time is counted in ticks of 0.01 time unit. *)
(* One kernel step pops the earliest event of the queue, runs the resource *)
(* callback registered on it and resumes the process waiting for it up to  *)
(* that process's next yield.                                              *)
(***************************************************************************)
EXTENDS Integers, Sequences, FiniteSets, TLC

VARIABLES now, queue, level, getq, putq, users, color, adj, maint_lock,
          feed, dispatched, pc, iteration, dev, sel, cpu_units, duration,
          held, alloc_ops, sel_stamp, phase_log, pick_log, req_time, adm_time,
          fn_in, fn_out, eid, job_records, req_queue, run_start, published,
          devices, method, maintenance_switch, plan

vars == <<now, queue, level, getq, putq, users, color, adj, maint_lock,
          feed, dispatched, pc, iteration, dev, sel, cpu_units, duration,
          held, alloc_ops, sel_stamp, phase_log, pick_log, req_time, adm_time,
          fn_in, fn_out, eid, job_records, req_queue, run_start, published,
          devices, method, maintenance_switch, plan>>

-----------------------------------------------------------------------------
(* Bounds of the model *)

\* number of jobs in the dispatcher's feed
MaxJobs == 2
\* largest iterations value of a job
MaxIter == 2
\* env.run(until=...), in time units
SimUntil == 68
\* distance between the cpu durations drawn, in ticks
DurationStep == 30
\* number of inter-arrival times drawn
InterArrivalSamples == 2

(* Time scale and the program's delays, in ticks *)
TicksPerUnit == 100
HalfUnit == TicksPerUnit \div 2
\* a broker polling faster than the program's does
PollDelayShort == HalfUnit - 20
\* yield self.env.timeout(0.5) in ParallelBroker.run
PollDelay == 50
\* yield self.env.timeout(1) in QuantumDevice.process_job
RetryDelay == 100
\* max(delay, 0.01) in JobGenerator.run
MinDispatchDelay == 1

URGENT == 0
NORMAL == 1

-----------------------------------------------------------------------------
(* Device catalogue: devices 1 and 2 are quantum devices, 3 is a CPU.      *)
(* self.devices = qpu_devices + cpu_devices, in this order.                *)

QPUs == {1, 2}
CPUs == {3}
Devices == QPUs \cup CPUs
DeviceList == <<1, 2, 3>>

DevType(d) == IF d \in QPUs THEN "QPU" ELSE "CPU"

\* device.nodes: the static edge list loaded from the topology file
EdgeList(d) == IF d = 1 THEN << <<0, 1>>, <<1, 2>>, <<2, 3>>, <<3, 4>>, <<4, 0>> >>
               ELSE IF d = 2 THEN << <<0, 1>>, <<0, 2>> >>
               ELSE << >>

SeqToSet(s) == {s[i] : i \in 1..Len(s)}

RECURSIVE Dedup(_, _)
Dedup(s, acc) ==
    IF s = << >> THEN acc
    ELSE Dedup(Tail(s), IF Head(s) \in SeqToSet(acc) THEN acc ELSE Append(acc, Head(s)))

RECURSIVE Flatten(_)
Flatten(es) == IF es = << >> THEN << >> ELSE <<Head(es)[1], Head(es)[2]>> \o Flatten(Tail(es))

\* list(graph.nodes): nodes in the order add_edges_from first met them
GraphNodes(d) == Dedup(Flatten(EdgeList(d)), << >>)

\* len(self.pos)
number_of_qubits(d) == Len(GraphNodes(d))

IndexOf(s, x) == CHOOSE i \in 1..Len(s) : s[i] = x

cpu_capacity(d) == 12
mem_bw_capacity(d) == 40

\* IBM device constants
clops(d) == 2500
qvol(d) == 8

ContIds == {<<d, "container">> : d \in Devices} \cup {<<d, "mem_bw">> : d \in CPUs}
NoCont == <<0, "none">>

\* the quantum devices a caller hands to QCloud(env, devices, ...) are
\* further devices of the first topology, numbered after the devices of the
\* hybrid environment
Listed(i) == Len(DeviceList) + i
ListedTopology == Head(DeviceList)

Capacity(c) == IF c[1] \in QPUs THEN number_of_qubits(c[1])
               ELSE IF c[1] \notin Devices THEN number_of_qubits(ListedTopology)
               ELSE IF c[2] = "container" THEN cpu_capacity(c[1])
               ELSE mem_bw_capacity(c[1])

\* self.maintenance_interval and self.maintenance_duration, in ticks, of a
\* device whose maintenance process a caller starts
maintenance_interval(d) == 1 * TicksPerUnit
maintenance_duration(d) == 2 * TicksPerUnit

\* random.randint(60, 120) of QuantumDevice.maintenance, in time units
WarmupRange == 60..120
\* the draws taken: the two ends of the range
WarmupDraws ==
    {w \in WarmupRange : (\A v \in WarmupRange : w <= v) \/ (\A v \in WarmupRange : w >= v)}

RECURSIVE Pow10(_)
Pow10(n) == IF n <= 0 THEN 1 ELSE 10 * Pow10(n - 1)

(* Inputs *)
Jobs == 1..MaxJobs
QubitChoices == {2, 3}
\* a job as wide as the largest device
WideQubits == {5}
ShotChoices == {50}
ArrivalChoices == {6100, 6130, 6150, 6200}

\* cpu_units = random.randint(4, 10)
CpuUnitRange == 4..10

\* the random draws the runs take, each a value the call can return: the two
\* ends of the range of cpu units; for random.uniform(1, 3) the duration 1.0
\* and the one DurationStep ticks longer; for the inter-arrival time
\* InterArrivalSamples values, the shortest one tick long and each next one
\* ten times the one before
CpuUnitDraws ==
    {u \in CpuUnitRange : (\A v \in CpuUnitRange : u <= v) \/ (\A v \in CpuUnitRange : u >= v)}
CpuDurationDraws == {TicksPerUnit, TicksPerUnit + DurationStep}
InterArrivalDraws == {Pow10(k) : k \in 0..(InterArrivalSamples - 1)}

JobProps == [num_qubits : QubitChoices, num_shots : ShotChoices,
             iterations : 1..MaxIter, arrival_time : ArrivalChoices]

WideProps == [num_qubits : WideQubits, num_shots : ShotChoices,
              iterations : {1}, arrival_time : ArrivalChoices]

\* the feeds of the runs: any jobs of JobProps, or wide jobs only
JobFeeds == [Jobs -> JobProps] \cup [Jobs -> WideProps]

-----------------------------------------------------------------------------
(* The simulation kernel: a time-ordered event queue *)

Gen == <<"gen", 0>>
NoProc == <<"none", 0>>
JobProc(j) == <<"job", j>>
\* the process of device d's maintenance, and of a device_comm call made for job j
MaintProc(d) == <<"maint", d>>
CommProc(j) == <<"comm", j>>

\* an entry of the heap: (time, priority, event id, event)
Event(t, prio, id, proc, kind, cont) ==
    [t |-> t, prio |-> prio, eid |-> id, proc |-> proc, kind |-> kind, cont |-> cont]

\* Environment.schedule: heap order (time, priority, event id)
Schedule(q, ev) ==
    LET k == Cardinality({i \in 1..Len(q) :
                 q[i].t < ev.t \/ (q[i].t = ev.t /\ q[i].prio <= ev.prio)})
    IN SubSeq(q, 1, k) \o <<ev>> \o SubSeq(q, k + 1, Len(q))

\* heappush(self._queue, (self._now + delay, priority, next(self._eid), event))
Push(s, delay, prio, proc, kind, cont) ==
    [s EXCEPT !.queue = Schedule(@, Event(s.now + delay, prio, s.eid, proc, kind, cont)),
              !.eid = @ + 1]

\* a timeout that fires one tick late
TimeoutLate(s, p, delay) == Push(s, delay + 1, NORMAL, p, "timeout", NoCont)

\* self.env.timeout(delay), yielded by process p
Timeout(s, p, delay) == Push(s, delay, NORMAL, p, "timeout", NoCont)

Spawn(s, p) == Push(s, 0, URGENT, p, "init", NoCont)

-----------------------------------------------------------------------------
(* JobRecordsManager: job_records[job_id] maps an event name to the value  *)
(* logged under it, names in the order they were first logged.  An event   *)
(* name is a tuple: <<"arrival">>, <<"qpu", "start">>, <<"qpu", "wait", 0>>. *)

\* position of a name in a job's record, 0 when the name is absent
KeyIndex(row, key) ==
    IF \E i \in 1..Len(row) : row[i].key = key
    THEN CHOOSE i \in 1..Len(row) : row[i].key = key
    ELSE 0

\* a ledger that keeps only the latest value of a name
log_job_event_overwrite(recs, job_id, event_type, timestamp) ==
    LET i == KeyIndex(recs[job_id], event_type) IN
    IF i = 0
    THEN [recs EXCEPT ![job_id] =
              Append(@, [key |-> event_type, scalar |-> TRUE, vals |-> <<timestamp>>])]
    ELSE [recs EXCEPT ![job_id][i] =
              [key |-> event_type, scalar |-> TRUE, vals |-> <<timestamp>>]]

\* log_job_event: a first value is stored as a scalar, a repeated name
\* turns the entry into the list of all values logged under it
log_job_event(recs, job_id, event_type, timestamp) ==
    LET i == KeyIndex(recs[job_id], event_type) IN
    IF i = 0
    THEN [recs EXCEPT ![job_id] =
              Append(@, [key |-> event_type, scalar |-> TRUE, vals |-> <<timestamp>>])]
    ELSE [recs EXCEPT ![job_id][i] =
              [key |-> event_type, scalar |-> FALSE, vals |-> Append(@.vals, timestamp)]]

Log(s, j, key, value) == [s EXCEPT !.job_records = log_job_event(@, j, key, value)]

\* round(x, digits) of a time counted in ticks of 0.01, for the calls the
\* program makes (2 and 4 digits): the float is brought to the tick it stands for
Round(x, digits) == CASE digits >= 2 -> (x * Pow10(digits - 2)) \div Pow10(digits - 2)

\* the attributes a JobRecordsManager instance has
ManagerAttrs == {"event_bus", "job_records"}

\* row.get(key) when the name is absent
None == [key |-> <<"None">>, scalar |-> TRUE, vals |-> << >>]

\* a lookup that answers 0 for a name that is absent
RowGetZero(row, key) ==
    IF KeyIndex(row, key) = 0 THEN [key |-> key, scalar |-> TRUE, vals |-> <<0>>]
    ELSE row[KeyIndex(row, key)]

RowGet(row, key) == IF KeyIndex(row, key) = 0 THEN None ELSE row[KeyIndex(row, key)]

\* getattr(self.job_records_manager, "records", {}).get(job_id, {})
Rec(s, j) == IF "records" \in ManagerAttrs THEN s.job_records[j] ELSE << >>

\* Process._resume when the generator returns: the process is an event that
\* has succeeded, scheduled at the current time; nobody waits for it
ProcessEnd(s, p) == Push([s EXCEPT !.pc[p] = "done"], 0, NORMAL, NoProc, "end", p)

\* Process._resume when an exception leaves the generator: the process is an
\* event that has failed, scheduled at the current time behind the events
\* already due; Environment.step raises it out of run() when it is processed
RaiseIn(s, p) == Push([s EXCEPT !.pc[p] = "failed"], 0, NORMAL, NoProc, "end", p)

\* an exception leaves the process of job j
Raise(s, j) == RaiseIn(s, JobProc(j))

PhaseName(phase) == IF phase = "QPU" THEN "qpu" ELSE "cpu"

\* _record_phase_metrics: the row it reads, then the three derived events
\* (list - list is a TypeError)
RecordPhaseMetrics(s, j, phase, iter_idx) ==
    LET row == Rec(s, j)
        t_arr == RowGet(row, <<phase, "arrive">>)
        t_s == RowGet(row, <<phase, "start">>)
        t_f == RowGet(row, <<phase, "finish">>)
    IN IF t_arr = None \/ t_s = None \/ t_f = None THEN s
       ELSE IF ~(t_arr.scalar /\ t_s.scalar /\ t_f.scalar) THEN Raise(s, j)
       ELSE Log(Log(Log(s, j, <<phase, "wait", iter_idx>>, Round(t_s.vals[1] - t_arr.vals[1], 4)),
                        j, <<phase, "svc", iter_idx>>, Round(t_f.vals[1] - t_s.vals[1], 4)),
                    j, <<phase, "turn", iter_idx>>, Round(t_f.vals[1] - t_arr.vals[1], 4))

\* the makespan block of run()
RecordMakespan(s, j) ==
    LET row == Rec(s, j)
        t0 == IF RowGet(row, <<"arrival">>) # None THEN RowGet(row, <<"arrival">>)
              ELSE RowGet(row, <<"qpu", "arrive">>)
        tf == RowGet(row, <<"cpu", "finish">>)
    IN IF t0 = None \/ tf = None THEN s
       ELSE IF ~(t0.scalar /\ tf.scalar) THEN Raise(s, j)
       ELSE Log(s, j, <<"makespan">>, Round(tf.vals[1] - t0.vals[1], 4))

-----------------------------------------------------------------------------
(* EventBus: `published` is what a subscriber to every event type receives, *)
(* in order of delivery                                                    *)

\* event_bus.publish(event_type, {"device", "job_id", "timestamp"})
Publish(s, event_type, d, j) ==
    [s EXCEPT !.published = Append(@, [type |-> event_type, device |-> d, job_id |-> j,
                                       timestamp |-> Round(s.now, 2)])]

-----------------------------------------------------------------------------
(* simpy.Container: bounded level, FIFO get and put queues *)

Holder(s, p, c, delta) ==
    IF p[1] = "job" THEN [s EXCEPT !.held[p[2]][c] = @ + delta] ELSE s

\* a container that serves a get whatever its level
DoGetAlways(lvl, amount) == TRUE

\* a get that is served at once when the level allows, whoever waits
ContainerGetFirstFit(s, c, p, amount) ==
    IF s.level[c] >= amount
    THEN [Push([s EXCEPT !.level[c] = @ - amount], 0, NORMAL, p, "get", c)
             EXCEPT !.held[p[2]][c] = @ + amount]
    ELSE [s EXCEPT !.getq[c] = Append(@, [proc |-> p, amount |-> amount])]

\* Container._do_get
DoGetOk(lvl, amount) == lvl >= amount

\* Container._do_put
DoPutOk(cap, lvl, amount) == cap - lvl >= amount

\* BaseResource._trigger_get: serve the get queue in order, stop at the
\* first request the level cannot satisfy
RECURSIVE TriggerGet(_, _)
TriggerGet(s, c) ==
    IF s.getq[c] = << >> THEN s
    ELSE LET w == Head(s.getq[c]) IN
         IF DoGetOk(s.level[c], w.amount)
         THEN TriggerGet(
                Holder(Push([s EXCEPT !.level[c] = @ - w.amount, !.getq[c] = Tail(@)],
                            0, NORMAL, w.proc, "get", c),
                       w.proc, c, w.amount), c)
         ELSE s

\* BaseResource._trigger_put
RECURSIVE TriggerPut(_, _)
TriggerPut(s, c) ==
    IF s.putq[c] = << >> THEN s
    ELSE LET w == Head(s.putq[c]) IN
         IF DoPutOk(Capacity(c), s.level[c], w.amount)
         THEN TriggerPut(
                Holder(Push([s EXCEPT !.level[c] = @ + w.amount, !.putq[c] = Tail(@)],
                            0, NORMAL, w.proc, "put", c),
                       w.proc, c, 0 - w.amount), c)
         ELSE s

\* container.get(amount): the request joins the get queue and the queue is served
ContainerGet(s, c, p, amount) ==
    TriggerGet([s EXCEPT !.getq[c] = Append(@, [proc |-> p, amount |-> amount])], c)

\* container.put(amount)
ContainerPut(s, c, p, amount) ==
    TriggerPut([s EXCEPT !.putq[c] = Append(@, [proc |-> p, amount |-> amount])], c)

\* a slot that is granted whoever uses it
SlotAlwaysFree(used) == TRUE

\* Resource._do_put with capacity 1: len(self.users) < self.capacity
SlotFree(used) == used = {}

\* SortedQueue.append: requests ordered by (priority, time of the request)
ReqInsert(q, r) ==
    LET k == Cardinality({i \in 1..Len(q) : q[i].prio <= r.prio})
    IN SubSeq(q, 1, k) \o <<r>> \o SubSeq(q, k + 1, Len(q))

\* BaseResource._trigger_put of a Resource: the head request is granted if
\* the slot is free; its event resumes the requester only if it yielded it
TriggerRequest(s, d) ==
    IF s.req_queue[d] # << >> /\ SlotFree(s.users[d])
    THEN LET r == Head(s.req_queue[d]) IN
         Push([s EXCEPT !.users[d] = {r.proc}, !.req_queue[d] = Tail(@)],
              0, NORMAL, IF r.waits THEN r.proc ELSE NoProc, "request", <<d, "resource">>)
    ELSE s

\* callbacks of a processed event: a get wakes the put queue, a put the get
\* queue, a release the request queue
ResourceCallback(s, ev) ==
    IF ev.kind = "get" THEN TriggerPut(s, ev.cont)
    ELSE IF ev.kind = "put" THEN TriggerGet(s, ev.cont)
    ELSE IF ev.kind = "release" THEN TriggerRequest(s, ev.cont[1])
    ELSE s

-----------------------------------------------------------------------------
(* Topology graph of a quantum device: networkx adjacency (insertion       *)
(* ordered) and the colour list indexed by position in graph.nodes         *)

Free == "skyblue"
Busy == "red"

AddTo(seq, x) == IF x \in SeqToSet(seq) THEN seq ELSE Append(seq, x)

\* Graph.add_edge: a present edge keeps its place in the adjacency
AddEdge(A, e) ==
    LET A1 == [A EXCEPT ![e[1]] = AddTo(@, e[2])]
    IN [A1 EXCEPT ![e[2]] = AddTo(@, e[1])]

RECURSIVE AddEdges(_, _)
AddEdges(A, es) == IF es = << >> THEN A ELSE AddEdges(AddEdge(A, Head(es)), Tail(es))

\* self.graph.add_edges_from(self.nodes)
InitAdj(d) == AddEdges([n \in SeqToSet(GraphNodes(d)) |-> << >>], EdgeList(d))

\* ['skyblue' for _ in range(self.number_of_qubits)]
InitColor(d) == [i \in 1..number_of_qubits(d) |-> Free]

ColorOf(cm, d, n) == cm[IndexOf(GraphNodes(d), n)]

FreeNodes(cm, d) == {n \in SeqToSet(GraphNodes(d)) : ColorOf(cm, d, n) = Free}
BusyNodes(cm, d) == {n \in SeqToSet(GraphNodes(d)) : ColorOf(cm, d, n) # Free}

EdgeSet(A) == {{e[1], e[2]} : e \in {x \in (DOMAIN A) \X (DOMAIN A) : x[2] \in SeqToSet(A[x[1]])}}

StaticEdgeSet(d) == {{EdgeList(d)[i][1], EdgeList(d)[i][2]} : i \in 1..Len(EdgeList(d))}

\* nx.bfs_edges(graph, start): the nodes in the order the traversal reaches them
RECURSIVE BfsOrder(_, _, _, _)
BfsOrder(A, frontier, seen, out) ==
    IF frontier = << >> THEN out
    ELSE LET u == Head(frontier)
             fresh == SelectSeq(A[u], LAMBDA v : v \notin seen)
         IN BfsOrder(A, Tail(frontier) \o fresh, seen \cup SeqToSet(fresh), out \o fresh)

NoSelection == [ok |-> FALSE, nodes |-> {}]

\* a selection accepted whatever its size
AcceptAnySize(g, N) == Cardinality(g) >= 1

\* if len(subgraph_nodes) == N
AcceptSubgraph(g, N) == Cardinality(g) = N

\* the node set grown from one start node
GrowFrom(A, cm, d, N, start) ==
    LET reached == BfsOrder(A, <<start>>, {start}, << >>)
        cand == SelectSeq(reached, LAMBDA v : ColorOf(cm, d, v) = Free)
        k == IF N - 1 < 0 THEN 0 ELSE IF N - 1 > Len(cand) THEN Len(cand) ELSE N - 1
    IN {start} \cup SeqToSet(SubSeq(cand, 1, k))

\* the start nodes tried from the last one
RECURSIVE TryStartsFromLast(_, _, _, _, _)
TryStartsFromLast(A, cm, d, N, starts) ==
    IF starts = << >> THEN NoSelection
    ELSE LET g == GrowFrom(A, cm, d, N, starts[Len(starts)]) IN
         IF AcceptSubgraph(g, N) THEN [ok |-> TRUE, nodes |-> g]
         ELSE TryStartsFromLast(A, cm, d, N, SubSeq(starts, 1, Len(starts) - 1))

RECURSIVE TryStarts(_, _, _, _, _)
TryStarts(A, cm, d, N, starts) ==
    IF starts = << >> THEN NoSelection
    ELSE LET g == GrowFrom(A, cm, d, N, Head(starts)) IN
         IF AcceptSubgraph(g, N) THEN [ok |-> TRUE, nodes |-> g]
         ELSE TryStarts(A, cm, d, N, Tail(starts))

select_vertices_fast(A, cm, d, N) ==
    LET candidate_nodes == SelectSeq(GraphNodes(d), LAMBDA n : ColorOf(cm, d, n) = Free)
    IN IF Len(candidate_nodes) < N THEN NoSelection
       ELSE TryStarts(A, cm, d, N, candidate_nodes)

\* colour part of remove_connectivity / reconnect_nodes
Recolor(cm, d, nodes, new_color) ==
    [i \in DOMAIN cm |-> IF GraphNodes(d)[i] \in nodes THEN new_color ELSE cm[i]]

\* graph.remove_edges_from(edges between a node of `nodes` and a neighbour outside)
CutEdges(A, nodes) ==
    [u \in DOMAIN A |-> SelectSeq(A[u], LAMBDA v : (u \in nodes) = (v \in nodes))]

\* a restoration that forgets the edges listed from the higher node
FreeEdgesAscending(cm, d) ==
    SelectSeq(EdgeList(d), LAMBDA e : ColorOf(cm, d, e[1]) = Free /\ ColorOf(cm, d, e[2]) = Free
                                      /\ e[1] < e[2])

\* the edges of the static list whose two endpoints are free, in list order
FreeEdges(cm, d) ==
    SelectSeq(EdgeList(d), LAMBDA e : ColorOf(cm, d, e[1]) = Free /\ ColorOf(cm, d, e[2]) = Free)

remove_connectivity(cm, A, d, nodes, new_color) ==
    [color |-> Recolor(cm, d, nodes, new_color), adj |-> CutEdges(A, nodes)]

reconnect_nodes(cm, A, d, selected_vertices) ==
    LET cm1 == Recolor(cm, d, selected_vertices, Free)
    IN [color |-> cm1, adj |-> AddEdges(A, FreeEdges(cm1, d))]

\* a reservation made on a graph that the quantum devices share
ReserveShared(s, d, nodes) ==
    [s EXCEPT !.color = [e \in QPUs |->
                            remove_connectivity(s.color[e], s.adj[e], e, nodes, Busy).color],
              !.adj = [e \in QPUs |->
                          remove_connectivity(s.color[e], s.adj[e], e, nodes, Busy).adj],
              !.alloc_ops[d] = @ + 1]

\* the calls of process_job on the device's graph, counted per device
Reserve(s, d, nodes) ==
    LET g == remove_connectivity(s.color[d], s.adj[d], d, nodes, Busy)
    IN [s EXCEPT !.color[d] = g.color, !.adj[d] = g.adj, !.alloc_ops[d] = @ + 1]

Unreserve(s, d, nodes) ==
    LET g == reconnect_nodes(s.color[d], s.adj[d], d, nodes)
    IN [s EXCEPT !.color[d] = g.color, !.adj[d] = g.adj, !.alloc_ops[d] = @ + 1]

-----------------------------------------------------------------------------
(* Job attributes *)

num_qubits(s, j) == s.feed[j].num_qubits
num_shots(s, j) == s.feed[j].num_shots
\* hasattr(job, name): feed[j] holds the attributes of the job object
HasAttr(s, j, name) == name \in DOMAIN s.feed[j]

\* job.iterations; run() sets it to 1 on a job object that has none
iterations(s, j) == IF HasAttr(s, j, "iterations") THEN s.feed[j].iterations ELSE 1

\* int(getattr(job, "mem_bw", 20)): a QJob carries no mem_bw unless the caller
\* that built it set the attribute
mem_bw(s, j) == IF HasAttr(s, j, "mem_bw") THEN s.feed[j].mem_bw ELSE 20

\* int(getattr(job, "cpu_units", 8)) of _cpu_needs
NeededCpuUnits(s, j) == IF HasAttr(s, j, "cpu_units") THEN s.feed[j].cpu_units ELSE 8

\* ParallelBroker._cpu_needs: both needs are read from the job object
CpuNeeds(s, j) == <<NeededCpuUnits(s, j), mem_bw(s, j)>>

Max(a, b) == IF a >= b THEN a ELSE b

RECURSIVE Log2(_)
Log2(x) == IF x <= 1 THEN 0 ELSE 1 + Log2(x \div 2)

\* IBM_QuantumDevice.calculate_process_time: M*K*S*D/clops/60 time units, in ticks
calculate_process_time(s, d, j) ==
    (100 * 10 * num_shots(s, j) * Log2(qvol(d)) * TicksPerUnit) \div (clops(d) * 60)

-----------------------------------------------------------------------------
(* ParallelBroker._pick_device_by_capacity over the device list; a device  *)
(* is seen as [type, level, mem, maint_lock, has_qubits, nq]; the result   *)
(* is an index of the list, 0 for None                                     *)

DeviceView(s, d) ==
    [type |-> DevType(d),
     level |-> s.level[<<d, "container">>],
     mem |-> IF d \in CPUs THEN s.level[<<d, "mem_bw">>] ELSE 0,
     maint_lock |-> IF d \in QPUs THEN s.maint_lock[d] ELSE FALSE,
     has_qubits |-> d \in QPUs,
     nq |-> IF d \in QPUs THEN number_of_qubits(d) ELSE 0]

DeviceViews(s) == [i \in 1..Len(s.devices) |-> DeviceView(s, s.devices[i])]

\* ParallelBroker._fits_physical
FitsPhysical(v, req) == v.has_qubits /\ v.nq >= req

\* a filter that does not look at maint_lock
QualifiesDespiteMaint(v, device_type, needed, req) ==
    IF device_type = "CPU"
    THEN v.type = "CPU" /\ v.level >= needed[1] /\ v.mem >= needed[2]
    ELSE v.type = "QPU" /\ v.level >= needed[1] /\ FitsPhysical(v, req)

\* the filter of the candidates list
Qualifies(v, device_type, needed, req) ==
    IF device_type = "CPU"
    THEN v.type = "CPU" /\ ~v.maint_lock /\ v.level >= needed[1] /\ v.mem >= needed[2]
    ELSE v.type = "QPU" /\ ~v.maint_lock /\ v.level >= needed[1] /\ FitsPhysical(v, req)

\* a sort key without the memory bandwidth
KeyGreaterLevelOnly(a, b, device_type) == a.level > b.level

\* sort key compared with reverse=True: a strictly greater than b
KeyGreater(a, b, device_type) ==
    IF device_type = "CPU"
    THEN a.level > b.level \/ (a.level = b.level /\ a.mem > b.mem)
    ELSE a.level > b.level

\* candidates.sort(reverse=True) is stable: candidates[0] is the first
\* candidate of the list no other candidate beats
PickDeviceByCapacity(views, device_type, needed, req) ==
    LET cand == {i \in 1..Len(views) : Qualifies(views[i], device_type, needed, req)}
        best == {i \in cand : \A k \in cand : ~KeyGreater(views[k], views[i], device_type)}
    IN IF cand = {} THEN 0 ELSE CHOOSE i \in best : \A k \in best : i <= k

-----------------------------------------------------------------------------
(* QuantumDevice.process_job *)

Select(s, d, j) ==
    [s EXCEPT !.sel[j] = select_vertices_fast(s.adj[d], s.color[d], d, num_qubits(s, j)),
              !.alloc_ops[d] = @ + 1,
              !.sel_stamp[j] = s.alloc_ops[d] + 1]

\* the amount process_job takes from and returns to the qubit container
QpuGetAmount(s, j) == num_qubits(s, j)
QpuPutAmount(s, j) == num_qubits(s, j)

\* while selected_vertices is None or self.maint_lock: wait 1 and select again;
\* then container.get
QpuAdmit(s, d, j) ==
    IF ~s.sel[j].ok \/ s.maint_lock[d]
    THEN Timeout([s EXCEPT !.pc[JobProc(j)] = "qpu_retry"], JobProc(j), RetryDelay)
    ELSE ContainerGet(Log([s EXCEPT !.pc[JobProc(j)] = "qpu_get"],
                          j, <<"qpu", "units">>, num_qubits(s, j)),
                      <<d, "container">>, JobProc(j), QpuGetAmount(s, j))

\* entry of process_job: devc_name and qpu_arrive are logged, device_start is
\* published, then the first select
QpuEnter(s, d, j) ==
    LET s1 == Log(Log([s EXCEPT !.dev[j] = d], j, <<"devc_name">>, d),
                  j, <<"qpu", "arrive">>, Round(s.now, 4))
    IN QpuAdmit(Select(Publish(s1, "device_start", d, j), d, j), d, j)

QpuRetried(s, j) == QpuAdmit(Select(s, s.dev[j], j), s.dev[j], j)

\* after the get: remove_connectivity, then timeout(process_time)
QpuReserved(s, j) ==
    Timeout([Reserve(s, s.dev[j], s.sel[j].nodes) EXCEPT
                 !.pc[JobProc(j)] = "qpu_run",
                 !.run_start[j] = [at |-> s.now]],
            JobProc(j), calculate_process_time(s, s.dev[j], j))

\* after the run: publish device_finish, container.put
QpuFinished(s, j) ==
    ContainerPut([Publish(s, "device_finish", s.dev[j], j) EXCEPT !.pc[JobProc(j)] = "qpu_put"],
                 <<s.dev[j], "container">>, JobProc(j), QpuPutAmount(s, j))

\* after the put: reconnect_nodes; process_job returns
QpuReleased(s, j) == Unreserve(s, s.dev[j], s.sel[j].nodes)

-----------------------------------------------------------------------------
(* CPU.process_job *)

CpuGetAmount(s, j) == s.cpu_units[j]
\* a put that returns one unit less than was taken
CpuPutShort(s, j) == s.cpu_units[j] - 1
CpuPutAmount(s, j) == s.cpu_units[j]

\* entry of process_job: the draws, the four logged events, container.get(cpu_units)
CpuEnter(s, d, j, cu, du) ==
    LET s1 == [s EXCEPT !.dev[j] = d, !.cpu_units[j] = cu, !.duration[j] = du,
                        !.pc[JobProc(j)] = "cpu_get1"]
        s2 == Log(Log(Log(Log(s1, j, <<"devc_name">>, d),
                          j, <<"cpu", "arrive">>, Round(s.now, 4)),
                      j, <<"cpu", "units">>, cu),
                  j, <<"cpu", "mem_bw">>, mem_bw(s, j))
    IN ContainerGet(s2, <<d, "container">>, JobProc(j), CpuGetAmount(s2, j))

\* ContainerGet.__init__: an amount that is not positive raises ValueError
GetRaises(amount) == amount <= 0

\* an except block that puts a single unit back
CpuUndoOne(s, j) == 1

\* the amount the except block puts back
CpuUndoAmount(s, j) == s.cpu_units[j]

\* try: yield self.mem_bw.get(mem_bw); except: yield self.container.put(cpu_units)
CpuGotUnits(s, j) ==
    IF GetRaises(mem_bw(s, j))
    THEN ContainerPut([s EXCEPT !.pc[JobProc(j)] = "cpu_undo"],
                      <<s.dev[j], "container">>, JobProc(j), CpuUndoAmount(s, j))
    ELSE ContainerGet([s EXCEPT !.pc[JobProc(j)] = "cpu_get2"],
                      <<s.dev[j], "mem_bw">>, JobProc(j), mem_bw(s, j))

\* the put of the except block is done: raise
CpuUndone(s, j) == Raise(s, j)

CpuGotMem(s, j) ==
    Timeout([s EXCEPT !.pc[JobProc(j)] = "cpu_run",
                      !.run_start[j] = [at |-> s.now]],
            JobProc(j), s.duration[j])

\* after the run: publish device_finish, then the two puts
CpuFinished(s, j) ==
    ContainerPut([Publish(s, "device_finish", s.dev[j], j) EXCEPT !.pc[JobProc(j)] = "cpu_put1"],
                 <<s.dev[j], "container">>, JobProc(j), CpuPutAmount(s, j))

\* a device that keeps the memory bandwidth when the job leaves
CpuKeepsMemBw(s, j) == Timeout([s EXCEPT !.pc[JobProc(j)] = "cpu_put2"], JobProc(j), 0)

CpuPutUnits(s, j) ==
    ContainerPut([s EXCEPT !.pc[JobProc(j)] = "cpu_put2"],
                 <<s.dev[j], "mem_bw">>, JobProc(j), mem_bw(s, j))

-----------------------------------------------------------------------------
(* ParallelBroker.run *)

\* setattr(job, name, value): the attribute is added or overwritten
SetAttr(job, name, value) ==
    [k \in DOMAIN job \cup {name} |-> IF k = name THEN value ELSE job[k]]

\* _phase_start: job.phase = phase, then the broker's stamp of the phase
PhaseStart(s, j, phase) ==
    Log([s EXCEPT !.feed[j] = SetAttr(@, "phase", phase),
                  !.phase_log[j] = Append(@, <<phase, "start", s.iteration[j]>>),
                  !.adm_time[j] = s.now],
        j, <<PhaseName(phase), "start">>, Round(s.now, 4))

\* _phase_end: the stamp that closes the phase

PhaseEnd(s, j, phase) ==
    Log([s EXCEPT !.phase_log[j] = Append(@, <<phase, "finish", s.iteration[j]>>)],
        j, <<PhaseName(phase), "finish">>, Round(s.now, 4))

\* the broker's lines after qpu.process_job returns
BrokerQpuEnd(s, j) == RecordPhaseMetrics(PhaseEnd(s, j, "QPU"), j, "qpu", s.iteration[j])

Picked(s, j, phase, needed, i, views) ==
    [s EXCEPT !.pick_log[j] = [phase |-> phase, idx |-> i, needed |-> needed,
                               req |-> num_qubits(s, j), views |-> views]]

\* one turn of "while qpu is None": pick, or wait 0.5 and come back
BrokerQpuPick(s, j) ==
    LET views == DeviceViews(s)
        q_needed == <<Max(1, num_qubits(s, j)), 0>>
        i == PickDeviceByCapacity(views, "QPU", q_needed, num_qubits(s, j))
        s1 == Picked(s, j, "QPU", q_needed, i, views)
    IN IF i = 0
       THEN Timeout([s1 EXCEPT !.pc[JobProc(j)] = "poll_qpu"], JobProc(j), PollDelay)
       ELSE QpuEnter(PhaseStart(s1, j, "QPU"), s.devices[i], j)

\* one turn of "while cpu is None"
BrokerCpuPick(s, j, cu, du) ==
    LET views == DeviceViews(s)
        i == PickDeviceByCapacity(views, "CPU", CpuNeeds(s, j), num_qubits(s, j))
        s1 == Picked(s, j, "CPU", CpuNeeds(s, j), i, views)
    IN IF i = 0
       THEN Timeout([s1 EXCEPT !.pc[JobProc(j)] = "poll_cpu"], JobProc(j), PollDelay)
       ELSE CpuEnter(PhaseStart(s1, j, "CPU"), s.devices[i], j, cu, du)

\* the phase is requested now
BrokerQpuPhase(s, j) == BrokerQpuPick([s EXCEPT !.req_time[j] = s.now], j)
BrokerCpuPhase(s, j, cu, du) == BrokerCpuPick([s EXCEPT !.req_time[j] = s.now], j, cu, du)

\* process_job has returned on the QPU: close the phase, request the CPU phase
BrokerAfterQpu(s, j, cu, du) ==
    LET s1 == BrokerQpuEnd(QpuReleased(s, j), j)
    IN IF s1.pc[JobProc(j)] = "failed" THEN s1 ELSE BrokerCpuPhase(s1, j, cu, du)

\* a counter that advances by two
SkipIteration(it) == it + 2

\* job.iteration += 1
NextIteration(it) == it + 1

\* the loop test of run(): while job.iteration < job.iterations
LoopAgain(it, its) == it < its

\* the CPU phase is over: close the iteration, loop or end
BrokerIterationEnd(s, j) ==
    LET s1 == RecordPhaseMetrics(PhaseEnd(s, j, "CPU"), j, "cpu", s.iteration[j])
        s2 == [s1 EXCEPT !.iteration[j] = NextIteration(@)]
        s3 == IF s2.iteration[j] >= iterations(s2, j) THEN RecordMakespan(s2, j) ELSE s2
    IN IF s1.pc[JobProc(j)] = "failed" THEN s1
       ELSE IF s3.pc[JobProc(j)] = "failed" THEN s3
       ELSE IF LoopAgain(s3.iteration[j], iterations(s3, j))
       THEN BrokerQpuPhase(s3, j)
       ELSE ProcessEnd(s3, JobProc(j))

\* entry of run(): job.iteration is set to 0 on a job object that has none
\* and kept on one that has it; then the loop test
BrokerRun(s, j) ==
    LET s1 == [s EXCEPT !.iteration[j] = IF HasAttr(s, j, "iteration") THEN @ ELSE 0]
    IN IF LoopAgain(s1.iteration[j], iterations(s1, j))
       THEN BrokerQpuPhase(s1, j)
       ELSE ProcessEnd(s1, JobProc(j))

-----------------------------------------------------------------------------
(* JobGenerator.run: the dispatcher branch walks the rows of the file, the  *)
(* generator branch draws an inter-arrival time and builds a job           *)

\* the dispatcher's loop: wait for the arrival time of the next row, or return
DispatchNext(s) ==
    IF s.dispatched < Len(s.feed)
    THEN LET delay == s.feed[s.dispatched + 1].arrival_time - s.now
         IN Timeout([s EXCEPT !.pc[Gen] = "wait"], Gen, Max(delay, MinDispatchDelay))
    ELSE ProcessEnd(s, Gen)

\* the generator's loop: yield self.env.timeout(self.job_generation_model())
GenerateNext(s, ia) == Timeout([s EXCEPT !.pc[Gen] = "wait"], Gen, ia)

\* the inter-arrival time has passed: the attributes of the job are drawn and
\* QJob(job_id, num_qubits, depth, num_shots, priority, arrival_time) is
\* called without `iterations`, which QJob.__init__ requires: TypeError leaves
\* the generator's process before anything is logged
Generate(s) == RaiseIn(s, Gen)

\* run() up to its first yield; ia is the draw of job_generation_model
GenNext(s, ia) == IF s.method = "generator" THEN GenerateNext(s, ia) ELSE DispatchNext(s)

\* the attributes QJob.__init__ sets from the row of the feed
QJobKeys == {"job_id", "num_qubits", "depth", "num_shots", "priority", "arrival_time",
             "iterations"}

\* QJob(job_id=job_props["job_id"], ...): the job object carries the seven
\* named values of its row and nothing else of it
QJob(job_props) == [k \in DOMAIN job_props \cap QJobKeys |-> job_props[k]]

\* the row is due: the job object takes its place, its arrival is logged and
\* its broker is started
Dispatch(s) ==
    LET k == s.dispatched + 1
    IN DispatchNext(Spawn(Log([s EXCEPT !.dispatched = k, !.pc[JobProc(k)] = "init",
                                        !.feed[k] = QJob(@)],
                              k, <<"arrival">>, Round(s.now, 2)),
                          JobProc(k)))

\* run() resumed after its timeout
GenDispatch(s) == IF s.method = "generator" THEN Generate(s) ELSE Dispatch(s)

-----------------------------------------------------------------------------
(* The device's PriorityResource *)

ResourceEvent(s, d, kind) == Push(s, 0, NORMAL, NoProc, kind, <<d, "resource">>)

\* self.resource.request(priority): the request joins the queue, which is served
Request(s, d, p, priority, waits) ==
    TriggerRequest([s EXCEPT !.req_queue[d] =
                        ReqInsert(@, [proc |-> p, prio |-> priority, waits |-> waits])], d)

\* leaving the with block: a request not granted yet is cancelled, then
\* resource.release(req)
Release(s, d, p) ==
    ResourceEvent([s EXCEPT !.req_queue[d] = SelectSeq(@, LAMBDA r : r.proc # p),
                            !.users[d] = @ \ {p}],
                  d, "release")

-----------------------------------------------------------------------------
(* SerialBroker.run *)

\* hasattr(device, "maint_lock"): QuantumDevice.__init__ sets it, CPU.__init__
\* does not
HasMaintLock(d) == d \in QPUs

\* a broker that requests the device at the priority of its job
SerialAssignAtJobPriority(s, j) ==
    IF ~HasMaintLock(s.dev[j]) THEN Raise(s, j)
    ELSE IF s.maint_lock[s.dev[j]]
    THEN Timeout([s EXCEPT !.pc[JobProc(j)] = "s_poll"], JobProc(j), RetryDelay)
    ELSE Request([s EXCEPT !.pc[JobProc(j)] = "s_req"], s.dev[j], JobProc(j),
                 s.feed[j].priority, TRUE)

\* while device.maint_lock: wait 1; then request the device at priority 2
\* and yield the request.  Reading maint_lock of a device that has none
\* raises AttributeError
SerialAssign(s, j) ==
    IF ~HasMaintLock(s.dev[j]) THEN Raise(s, j)
    ELSE IF s.maint_lock[s.dev[j]]
    THEN Timeout([s EXCEPT !.pc[JobProc(j)] = "s_poll"], JobProc(j), RetryDelay)
    ELSE Request([s EXCEPT !.pc[JobProc(j)] = "s_req"], s.dev[j], JobProc(j), 2, TRUE)

\* device = random.choice(self.devices): any device of the list, quantum or not
SerialChoose(s, j, d) == SerialAssign([s EXCEPT !.dev[j] = d], j)

\* process_job has returned: the with block is left, run() ends
SerialLeave(s, j) == ProcessEnd(Release(QpuReleased(s, j), s.dev[j], JobProc(j)), JobProc(j))

-----------------------------------------------------------------------------
(* QuantumDevice.maintenance *)

\* yield self.env.timeout(random.randint(60, 120))
MaintWarmup(s, d, w) ==
    Timeout([s EXCEPT !.pc[MaintProc(d)] = "m_warm"], MaintProc(d), w * TicksPerUnit)

\* yield self.env.timeout(self.maintenance_interval)
MaintInterval(s, d) ==
    Timeout([s EXCEPT !.pc[MaintProc(d)] = "m_wait"], MaintProc(d), maintenance_interval(d))

\* if self.maintenance_switch: the cycle; otherwise the generator returns
MaintWarmed(s, d) ==
    IF s.maintenance_switch[d] THEN MaintInterval(s, d) ELSE ProcessEnd(s, MaintProc(d))

\* a maintenance process that yields its request before its work
MaintLockWaits(s, d) ==
    Request([s EXCEPT !.maint_lock[d] = TRUE, !.pc[MaintProc(d)] = "m_work"],
            d, MaintProc(d), 1, TRUE)

\* self.maint_lock = True; with self.resource.request(priority=1) as req:
\* yield self.env.timeout(self.maintenance_duration) -- the request is made
\* and not yielded
MaintLock(s, d) ==
    Timeout(Request([s EXCEPT !.maint_lock[d] = TRUE, !.pc[MaintProc(d)] = "m_work"],
                    d, MaintProc(d), 1, FALSE),
            MaintProc(d), maintenance_duration(d))

\* self.maint_lock = False, the with block is left, the next cycle begins
MaintUnlock(s, d) ==
    MaintInterval(Release([s EXCEPT !.maint_lock[d] = FALSE], d, MaintProc(d)), d)

-----------------------------------------------------------------------------
(* The kernel loop: Environment.step *)

\* the processes of a run over the jobs js
ProcsOf(js) == {Gen} \cup {JobProc(j) : j \in js} \cup {MaintProc(d) : d \in QPUs}

Procs == ProcsOf(Jobs)

Cur == [now |-> now, queue |-> queue, level |-> level, getq |-> getq, putq |-> putq,
        users |-> users, color |-> color, adj |-> adj, maint_lock |-> maint_lock,
        feed |-> feed, dispatched |-> dispatched, pc |-> pc, iteration |-> iteration,
        dev |-> dev, sel |-> sel, cpu_units |-> cpu_units, duration |-> duration,
        held |-> held, alloc_ops |-> alloc_ops, sel_stamp |-> sel_stamp,
        phase_log |-> phase_log, pick_log |-> pick_log,
        req_time |-> req_time, adm_time |-> adm_time, eid |-> eid,
        job_records |-> job_records, req_queue |-> req_queue, run_start |-> run_start,
        published |-> published, devices |-> devices, method |-> method,
        maintenance_switch |-> maintenance_switch, plan |-> plan]

\* no function call has been made
NoCall == [op |-> "none"]

\* the state of the program becomes s
CommitState(s) ==
    /\ now' = s.now /\ queue' = s.queue /\ level' = s.level /\ getq' = s.getq
    /\ putq' = s.putq /\ users' = s.users /\ color' = s.color /\ adj' = s.adj
    /\ maint_lock' = s.maint_lock /\ feed' = s.feed /\ dispatched' = s.dispatched
    /\ pc' = s.pc /\ iteration' = s.iteration /\ dev' = s.dev /\ sel' = s.sel
    /\ cpu_units' = s.cpu_units /\ duration' = s.duration /\ held' = s.held
    /\ alloc_ops' = s.alloc_ops /\ sel_stamp' = s.sel_stamp
    /\ phase_log' = s.phase_log /\ pick_log' = s.pick_log
    /\ req_time' = s.req_time /\ adm_time' = s.adm_time /\ eid' = s.eid
    /\ job_records' = s.job_records /\ req_queue' = s.req_queue
    /\ run_start' = s.run_start
    /\ published' = s.published
    /\ devices' = s.devices /\ method' = s.method
    /\ maintenance_switch' = s.maintenance_switch /\ plan' = s.plan

Commit(s) == CommitState(s) /\ UNCHANGED <<fn_in, fn_out>>

\* run(until): the next event is processed while it is due before `until`
\* and no exception has left step()
Ready ==
    /\ queue # << >>
    /\ Head(queue).t < SimUntil * TicksPerUnit
    /\ \A p \in DOMAIN pc : pc[p] # "raised"

Resumes(p, label) == Ready /\ Head(queue).proc = p /\ pc[p] = label

\* the clock moves to the event, its resource callback runs first
Popped == ResourceCallback([Cur EXCEPT !.now = Head(queue).t, !.queue = Tail(queue)],
                           Head(queue))

\* ia is the draw of job_generation_model, taken in generator mode
GenStart == Resumes(Gen, "init") /\ \E ia \in InterArrivalDraws : Commit(GenNext(Popped, ia))
GenArrival == Resumes(Gen, "wait") /\ Commit(GenDispatch(Popped))

\* the event at the head of the queue is a process that has failed
Failing == Head(queue).kind = "end" /\ pc[Head(queue).cont] = "failed"

\* an event that resumes no process: a release, a request nobody yielded, a
\* process that has ended
ResourceStep == Ready /\ Head(queue).proc = NoProc /\ ~Failing /\ Commit(Popped)

\* Environment.step, `if not event._ok and not hasattr(event, "defused")`: the
\* exception of the failed process leaves step() and run()
StepRaises ==
    /\ Ready /\ Head(queue).proc = NoProc /\ Failing
    /\ Commit([Popped EXCEPT !.pc[Head(queue).cont] = "raised"])

BrokerStart(j) == Resumes(JobProc(j), "init") /\ Commit(BrokerRun(Popped, j))
BrokerPollQpu(j) == Resumes(JobProc(j), "poll_qpu") /\ Commit(BrokerQpuPick(Popped, j))
QpuRetry(j) == Resumes(JobProc(j), "qpu_retry") /\ Commit(QpuRetried(Popped, j))
QpuReserve(j) == Resumes(JobProc(j), "qpu_get") /\ Commit(QpuReserved(Popped, j))
QpuFinish(j) == Resumes(JobProc(j), "qpu_run") /\ Commit(QpuFinished(Popped, j))
\* cu and du are the draws of CPU.process_job, taken when a device is picked
QpuRelease(j, cu, du) ==
    Resumes(JobProc(j), "qpu_put") /\ Commit(BrokerAfterQpu(Popped, j, cu, du))
BrokerPollCpu(j, cu, du) ==
    Resumes(JobProc(j), "poll_cpu") /\ Commit(BrokerCpuPick(Popped, j, cu, du))
CpuUnitsGranted(j) == Resumes(JobProc(j), "cpu_get1") /\ Commit(CpuGotUnits(Popped, j))
CpuMemGranted(j) == Resumes(JobProc(j), "cpu_get2") /\ Commit(CpuGotMem(Popped, j))
CpuFinish(j) == Resumes(JobProc(j), "cpu_run") /\ Commit(CpuFinished(Popped, j))
CpuUnitsReturned(j) == Resumes(JobProc(j), "cpu_put1") /\ Commit(CpuPutUnits(Popped, j))
CpuReturn(j) == Resumes(JobProc(j), "cpu_put2") /\ Commit(BrokerIterationEnd(Popped, j))
CpuUndo(j) == Resumes(JobProc(j), "cpu_undo") /\ Commit(CpuUndone(Popped, j))

\* d is the draw of random.choice(self.devices)
SerialStart(j, d) ==
    /\ Resumes(JobProc(j), "init")
    /\ d \in SeqToSet(devices)
    /\ Commit(SerialChoose(Popped, j, d))
\* the timeout of assign_device's loop: maint_lock is tested again
SerialPoll(j) == Resumes(JobProc(j), "s_poll") /\ Commit(SerialAssign(Popped, j))
SerialGranted(j) == Resumes(JobProc(j), "s_req") /\ Commit(QpuEnter(Popped, dev[j], j))
SerialRelease(j) == Resumes(JobProc(j), "qpu_put") /\ Commit(SerialLeave(Popped, j))

\* w is the draw of random.randint(60, 120)
MaintStart(d, w) == Resumes(MaintProc(d), "init") /\ Commit(MaintWarmup(Popped, d, w))
MaintFirst(d) == Resumes(MaintProc(d), "m_warm") /\ Commit(MaintWarmed(Popped, d))
MaintBegin(d) == Resumes(MaintProc(d), "m_wait") /\ Commit(MaintLock(Popped, d))
MaintEnd(d) == Resumes(MaintProc(d), "m_work") /\ Commit(MaintUnlock(Popped, d))

\* Environment.step as a function of the state and the draws: the event at
\* the head of the queue is processed and the process waiting for it runs to
\* its next yield
EnvStep(s, x) ==
    LET p == Head(s.queue).proc
        q == ResourceCallback([s EXCEPT !.now = Head(s.queue).t, !.queue = Tail(s.queue)],
                              Head(s.queue))
        at == IF p = NoProc THEN "none" ELSE s.pc[p]
    IN IF p = NoProc
       THEN (IF Head(s.queue).kind = "end" /\ s.pc[Head(s.queue).cont] = "failed"
             THEN [q EXCEPT !.pc[Head(s.queue).cont] = "raised"]
             ELSE q)
       ELSE IF p = Gen THEN (IF at = "init" THEN GenNext(q, x.ia) ELSE GenDispatch(q))
       ELSE IF p[1] = "maint"
       THEN CASE at = "init" -> MaintWarmup(q, p[2], x.w)
              [] at = "m_warm" -> MaintWarmed(q, p[2])
              [] at = "m_wait" -> MaintLock(q, p[2])
              [] OTHER -> MaintUnlock(q, p[2])
       ELSE CASE at = "init" -> BrokerRun(q, p[2])
              [] at = "poll_qpu" -> BrokerQpuPick(q, p[2])
              [] at = "qpu_retry" -> QpuRetried(q, p[2])
              [] at = "qpu_get" -> QpuReserved(q, p[2])
              [] at = "qpu_run" -> QpuFinished(q, p[2])
              [] at = "qpu_put" -> BrokerAfterQpu(q, p[2], x.cu, x.du)
              [] at = "poll_cpu" -> BrokerCpuPick(q, p[2], x.cu, x.du)
              [] at = "cpu_get1" -> CpuGotUnits(q, p[2])
              [] at = "cpu_undo" -> CpuUndone(q, p[2])
              [] at = "cpu_get2" -> CpuGotMem(q, p[2])
              [] at = "cpu_run" -> CpuFinished(q, p[2])
              [] at = "cpu_put1" -> CpuPutUnits(q, p[2])
              [] OTHER -> BrokerIterationEnd(q, p[2])

NoPick == [phase |-> "none", idx |-> 0, needed |-> <<0, 0>>, req |-> 0, views |-> << >>]

\* job_feed_method of the environment
Methods == {"generator", "dispatcher"}

\* no bulk allocation planned, no device_comm called
NoComm == [qubits |-> 0, feedback |-> FALSE]
NoPlan == [mode |-> "none", used |-> << >>, shares |-> << >>, idx |-> 0, comm |-> NoComm]

\* the devices of the hybrid environment after assign_env of each, for the
\* job list f: everything but the positions of the processes and the feed
\* method.  The device classes construct their devices with
\* maintenance_switch False, and _initialize_devices starts no maintenance
\* process, so maint_lock stays as the constructor sets it.  A job object
\* that carries an iteration attribute starts at that value.  No bulk
\* allocation has been planned.  switch is maintenance_switch of the
\* quantum devices as the caller leaves it
BuiltWith(f, switch) ==
    /\ devices = DeviceList
    /\ now = 0
    /\ level = [c \in ContIds |-> Capacity(c)]
    /\ getq = [c \in ContIds |-> << >>]
    /\ putq = [c \in ContIds |-> << >>]
    /\ users = [d \in Devices |-> {}]
    /\ color = [d \in QPUs |-> InitColor(d)]
    /\ adj = [d \in QPUs |-> InitAdj(d)]
    /\ maint_lock = [d \in QPUs |-> FALSE]
    /\ maintenance_switch = switch
    /\ plan = [j \in DOMAIN f |-> NoPlan]
    /\ feed = f
    /\ dispatched = 0
    /\ iteration = [j \in DOMAIN f |->
                       IF "iteration" \in DOMAIN f[j] THEN f[j].iteration ELSE 0]
    /\ dev = [j \in DOMAIN f |-> 0]
    /\ sel = [j \in DOMAIN f |-> NoSelection]
    /\ cpu_units = [j \in DOMAIN f |-> 0]
    /\ duration = [j \in DOMAIN f |-> 0]
    /\ held = [j \in DOMAIN f |-> [c \in ContIds |-> 0]]
    /\ alloc_ops = [d \in QPUs |-> 0]
    /\ sel_stamp = [j \in DOMAIN f |-> 0]
    /\ phase_log = [j \in DOMAIN f |-> << >>]
    /\ pick_log = [j \in DOMAIN f |-> NoPick]
    /\ req_time = [j \in DOMAIN f |-> 0]
    /\ adm_time = [j \in DOMAIN f |-> 0]
    /\ job_records = [j \in DOMAIN f |-> << >>]
    /\ req_queue = [d \in Devices |-> << >>]
    /\ run_start = [j \in DOMAIN f |-> [at |-> 0]]
    /\ published = << >>

\* maintenance_switch=False in every device class
Built(f) == BuiltWith(f, [d \in QPUs |-> FALSE])

\* the hybrid environment with its default job_feed_method, not run: no
\* process started
Constructed(f) ==
    /\ Built(f)
    /\ method = "generator"
    /\ pc = [p \in ProcsOf(DOMAIN f) |-> "unborn"]

\* HybridCloudSimEnv(qpu_devices, cpu_devices, job_feed_method=m) and run():
\* _initialize_devices starts no maintenance process, run() starts the job
\* generator.  f is the content of the file the environment is given, read
\* in dispatcher mode only
HybridCloudSimEnv(f, m) ==
    /\ Built(f)
    /\ method = m
    /\ pc = [p \in ProcsOf(DOMAIN f) |-> IF p = Gen THEN "init" ELSE "unborn"]
    /\ queue = <<Event(0, URGENT, 0, Gen, "init", NoCont)>>
    /\ eid = 1

\* a run of the hybrid environment with the capacity-aware broker, its
\* default broker_class
Init ==
    /\ \E f \in JobFeeds, m \in Methods : HybridCloudSimEnv(f, m)
    /\ fn_in = NoCall
    /\ fn_out = NoCall

Next ==
    \/ GenStart
    \/ GenArrival
    \/ ResourceStep
    \/ StepRaises
    \/ \E j \in Jobs :
         \/ BrokerStart(j) \/ BrokerPollQpu(j) \/ QpuRetry(j) \/ QpuReserve(j)
         \/ QpuFinish(j)
         \/ \E cu \in CpuUnitDraws, du \in CpuDurationDraws :
               QpuRelease(j, cu, du) \/ BrokerPollCpu(j, cu, du)
         \/ CpuUnitsGranted(j) \/ CpuMemGranted(j) \/ CpuFinish(j)
         \/ CpuUnitsReturned(j) \/ CpuReturn(j)

Spec == Init /\ [][Next]_vars

-----------------------------------------------------------------------------
(* The hybrid environment with the SerialBroker: random.choice draws from  *)
(* the whole device list, which ends with the CPU                          *)

SerialArrivals == {6050, 6100, 6130}

SerialProps == [num_qubits : QubitChoices \cup WideQubits, num_shots : ShotChoices, iterations : {1},
                arrival_time : SerialArrivals]

SerialInit ==
    /\ \E f \in [Jobs -> SerialProps], m \in Methods : HybridCloudSimEnv(f, m)
    /\ fn_in = NoCall
    /\ fn_out = NoCall

SerialNext ==
    \/ GenStart
    \/ GenArrival
    \/ ResourceStep
    \/ StepRaises
    \/ \E j \in Jobs :
         \/ (\E d \in Devices : SerialStart(j, d)) \/ SerialGranted(j) \/ QpuRetry(j)
         \/ QpuReserve(j) \/ QpuFinish(j) \/ SerialRelease(j)

SpecSerial == SerialInit /\ [][SerialNext]_vars

-----------------------------------------------------------------------------
(* Runs whose job rows carry a priority, under either broker class: the    *)
(* dispatcher copies the field into the QJob it hands to the broker        *)

\* int(row["priority"]) of the rows
PriorityChoices == {1, 3}

BrokerClasses == {"SerialBroker", "ParallelBroker"}

PrioArrivals == {6050, 6100}

PrioProps == [num_qubits : QubitChoices \cup WideQubits, num_shots : ShotChoices, iterations : {1},
              arrival_time : PrioArrivals, priority : PriorityChoices]

\* the hybrid environment is constructed with a broker class, a feed method
\* and a file
PrioInit ==
    /\ \E f \in [Jobs -> PrioProps], m \in Methods :
          /\ f[MaxJobs].arrival_time = 6100
          /\ HybridCloudSimEnv(f, m)
    /\ \E b \in BrokerClasses : fn_in = [op |-> "run", broker_class |-> b]
    /\ fn_out = NoCall

\* broker = self.broker_class(...); self.env.process(broker.run())
PrioSerialStart(j) ==
    fn_in.broker_class = "SerialBroker" /\ \E d \in Devices : SerialStart(j, d)
PrioSerialRelease(j) == fn_in.broker_class = "SerialBroker" /\ SerialRelease(j)
PrioBrokerStart(j) == fn_in.broker_class = "ParallelBroker" /\ BrokerStart(j)
PrioQpuRelease(j) ==
    /\ fn_in.broker_class = "ParallelBroker"
    /\ \E cu \in CpuUnitDraws, du \in CpuDurationDraws : QpuRelease(j, cu, du)

PrioNext ==
    \/ GenStart
    \/ GenArrival
    \/ ResourceStep
    \/ StepRaises
    \/ \E j \in Jobs :
         \/ PrioSerialStart(j) \/ SerialGranted(j) \/ PrioSerialRelease(j)
         \/ PrioBrokerStart(j) \/ BrokerPollQpu(j) \/ QpuRetry(j) \/ QpuReserve(j)
         \/ QpuFinish(j) \/ PrioQpuRelease(j)
         \/ \E cu \in CpuUnitDraws, du \in CpuDurationDraws : BrokerPollCpu(j, cu, du)
         \/ CpuUnitsGranted(j) \/ CpuMemGranted(j) \/ CpuFinish(j)
         \/ CpuUnitsReturned(j) \/ CpuReturn(j)

SpecPriority == PrioInit /\ [][PrioNext]_vars

\* the draws of one step, random.choice of the SerialBroker included
PrioDraws ==
    [cu : CpuUnitDraws, du : CpuDurationDraws, ia : InterArrivalDraws, d : Devices,
     w : WarmupDraws]

\* Environment.step of a run of SerialBroker jobs as a function of the state
\* and the draws
SerialEnvStep(s, x) ==
    LET p == Head(s.queue).proc
        q == ResourceCallback([s EXCEPT !.now = Head(s.queue).t, !.queue = Tail(s.queue)],
                              Head(s.queue))
    IN IF p # NoProc /\ p[1] = "job"
       THEN CASE s.pc[p] = "init" -> SerialChoose(q, p[2], x.d)
              [] s.pc[p] = "s_poll" -> SerialAssign(q, p[2])
              [] s.pc[p] = "s_req" -> QpuEnter(q, s.dev[p[2]], p[2])
              [] s.pc[p] = "qpu_retry" -> QpuRetried(q, p[2])
              [] s.pc[p] = "qpu_get" -> QpuReserved(q, p[2])
              [] s.pc[p] = "qpu_run" -> QpuFinished(q, p[2])
              [] OTHER -> SerialLeave(q, p[2])
       ELSE EnvStep(s, x)

\* one step of the run under broker class b
RunStep(s, b, x) == IF b = "SerialBroker" THEN SerialEnvStep(s, x) ELSE EnvStep(s, x)

-----------------------------------------------------------------------------
(* Runs in which the maintenance cycle of quantum devices runs.  The device *)
(* classes construct their devices with maintenance_switch False and the   *)
(* hybrid environment starts no maintenance process, so the cycle runs     *)
(* only for a caller who, between the construction of the environment and  *)
(* its run(), sets device.maintenance_switch = True and calls              *)
(* env.process(device.maintenance(False)), with maintenance_interval 1 and *)
(* maintenance_duration 2 set on the device                                *)

MaintArrivals == {6050, 6100}

MaintProps == [num_qubits : QubitChoices, num_shots : ShotChoices, iterations : {1},
               arrival_time : MaintArrivals]

\* the environment at the first step of run(): the switch is on for the
\* devices of `on`, a maintenance process was started for those of `started`,
\* in the order of the device list; the queue holds the Initialize events of
\* the maintenance processes, then that of the job generator, which run()
\* starts
Maintained(f, m, started, on) ==
    LET ds == SelectSeq(DeviceList, LAMBDA d : d \in started)
    IN /\ BuiltWith(f, [d \in QPUs |-> d \in on])
       /\ method = m
       /\ pc = [p \in ProcsOf(DOMAIN f) |->
                  IF p = Gen \/ (p[1] = "maint" /\ p[2] \in started) THEN "init"
                  ELSE "unborn"]
       /\ queue = [i \in 1..(Len(ds) + 1) |->
                     IF i <= Len(ds)
                     THEN Event(0, URGENT, i - 1, MaintProc(ds[i]), "init", NoCont)
                     ELSE Event(0, URGENT, Len(ds), Gen, "init", NoCont)]
       /\ eid = Len(ds) + 1

MaintInit ==
    /\ \E f \in [Jobs -> MaintProps], m \in Methods, started \in SUBSET QPUs :
          \E on \in SUBSET started : Maintained(f, m, started, on)
    /\ \E b \in BrokerClasses : fn_in = [op |-> "run", broker_class |-> b]
    /\ fn_out = NoCall

MaintNext ==
    \/ GenStart
    \/ GenArrival
    \/ ResourceStep
    \/ StepRaises
    \/ \E d \in QPUs :
         \/ \E w \in WarmupDraws : MaintStart(d, w)
         \/ MaintFirst(d) \/ MaintBegin(d) \/ MaintEnd(d)
    \/ \E j \in Jobs :
         \/ PrioSerialStart(j) \/ SerialPoll(j) \/ SerialGranted(j) \/ PrioSerialRelease(j)
         \/ PrioBrokerStart(j) \/ BrokerPollQpu(j) \/ QpuRetry(j) \/ QpuReserve(j)
         \/ QpuFinish(j) \/ PrioQpuRelease(j)
         \/ \E cu \in CpuUnitDraws, du \in CpuDurationDraws : BrokerPollCpu(j, cu, du)
         \/ CpuUnitsGranted(j) \/ CpuMemGranted(j) \/ CpuFinish(j)
         \/ CpuUnitsReturned(j) \/ CpuReturn(j)

SpecMaint == MaintInit /\ [][MaintNext]_vars

\* Environment.run calls step() as long as the queue holds an event due before
\* `until` and no exception has left it: weak fairness of the kernel step,
\* which is enabled exactly when Ready holds
MaintKernelRuns == []<>(~Ready) \/ []<><<MaintNext>>_vars

\* the run is not abandoned
SpecMaintLive ==
    MaintInit /\ [][MaintNext]_vars /\ WF_vars(ResourceStep) /\ MaintKernelRuns

-----------------------------------------------------------------------------
(* Job objects built by the caller, who may set attributes the dispatcher  *)
(* never sets (mem_bw), on the devices of the hybrid environment: for each *)
(* job a process waits for the job's arrival time and then runs a broker   *)
(* or process_job; the job generator is not started                        *)

\* the timeouts of the first j such processes, scheduled in order
RECURSIVE DirectQueue(_, _)
DirectQueue(f, j) ==
    IF j = 0 THEN << >>
    ELSE Schedule(DirectQueue(f, j - 1),
                  Event(f[j].arrival_time, NORMAL, j - 1, JobProc(j), "timeout", NoCont))

\* every process has yielded env.timeout(job.arrival_time); the environment
\* keeps its default job_feed_method and is not run
Started(f) ==
    /\ Built(f)
    /\ method = "generator"
    /\ queue = DirectQueue(f, Len(f))
    /\ pc = [p \in ProcsOf(DOMAIN f) |-> IF p[1] = "job" THEN "init" ELSE "unborn"]
    /\ eid = Len(f)

-----------------------------------------------------------------------------
(* The hybrid environment in the hands of a caller who does not call its   *)
(* run(): job objects built by hand, with attributes the dispatcher never  *)
(* sets; calls of CPU.maintenance and of HybridCloud.submit_job, which     *)
(* nothing in the repository calls; a ParallelBroker process started for   *)
(* each job, and env.run                                                   *)

\* number of calls of maintenance and submit_job a script makes
MaxCallerCalls == 2

\* job.cpu_units and job.iteration, where the caller has set them
CallerCpuUnits == {2, 12}
CallerIteration == {1}

\* the job objects: every one carries mem_bw, some carry cpu_units or an
\* iteration they are to resume from
CallerProps ==
    LET base == [num_qubits : {3}, num_shots : ShotChoices, iterations : {MaxIter},
                 arrival_time : {0}, mem_bw : {10}]
        with(S, name, V) ==
            S \cup {[k \in DOMAIN r \cup {name} |-> IF k = name THEN v ELSE r[k]] :
                       r \in S, v \in V}
    IN with(with(base, "cpu_units", CallerCpuUnits), "iteration", CallerIteration)

\* nothing has been scheduled and no call made
CallerInit ==
    /\ \E f \in [Jobs -> CallerProps] : Constructed(f)
    /\ queue = << >>
    /\ eid = 0
    /\ fn_in = [op |-> "caller"]
    /\ fn_out = [op |-> "caller", calls |-> 0, raised |-> "none"]

\* the script is still running: env.run has processed no event
CallerTurn == now = 0 /\ \A p \in DOMAIN pc : pc[p] \in {"unborn", "init"}

\* CPU.maintenance(_): return self.env.timeout(0), an event at the current
\* time that nobody waits for
maintenance(s) == Push(s, 0, NORMAL, NoProc, "timeout", NoCont)

\* cpu.maintenance(False), or env.process(cpu.maintenance(False)): the
\* timeout is scheduled, then Process.__init__ rejects the Timeout, which
\* is not a generator, with ValueError
CpuMaintenance(d, as_process) ==
    /\ CallerTurn
    /\ d \in CPUs
    /\ fn_out.calls < MaxCallerCalls
    /\ CommitState(maintenance(Cur))
    /\ fn_out' = [fn_out EXCEPT !.calls = @ + 1,
                                !.raised = IF as_process THEN "ValueError" ELSE "none"]
    /\ UNCHANGED fn_in

\* HybridCloud.submit_job(job): job.phase = "quantum", job.iteration = 0, then
\* self.execute, which HybridCloud does not have
submit_job(s, j) ==
    [s EXCEPT !.feed[j] = [k \in DOMAIN @ \cup {"phase", "iteration"} |->
                             IF k = "phase" THEN "quantum"
                             ELSE IF k = "iteration" THEN 0 ELSE @[k]],
              !.iteration[j] = 0]

\* the call leaves the job reset and raises AttributeError; nothing is
\* scheduled
SubmitJob(j) ==
    /\ CallerTurn
    /\ fn_out.calls < MaxCallerCalls
    /\ CommitState(submit_job(Cur, j))
    /\ fn_out' = [fn_out EXCEPT !.calls = @ + 1, !.raised = "AttributeError"]
    /\ UNCHANGED fn_in

\* env.process(ParallelBroker(env, devices, job, ...).run()), job by job
CallerStart(j) ==
    /\ CallerTurn
    /\ pc[JobProc(j)] = "unborn"
    /\ \A i \in 1..(j - 1) : pc[JobProc(i)] = "init"
    /\ Commit(Spawn([Cur EXCEPT !.pc[JobProc(j)] = "init"], JobProc(j)))

CallerNext ==
    \/ \E d \in CPUs, as_process \in BOOLEAN : CpuMaintenance(d, as_process)
    \/ \E j \in Jobs : SubmitJob(j) \/ CallerStart(j)
    \/ ResourceStep
    \/ \E j \in Jobs :
         \/ BrokerStart(j) \/ QpuReserve(j) \/ QpuFinish(j)
         \/ \E cu \in CpuUnitDraws, du \in CpuDurationDraws :
               QpuRelease(j, cu, du) \/ BrokerPollCpu(j, cu, du)
         \/ CpuUnitsGranted(j) \/ CpuMemGranted(j) \/ CpuFinish(j)
         \/ CpuUnitsReturned(j) \/ CpuReturn(j)

SpecCaller == CallerInit /\ [][CallerNext]_vars

-----------------------------------------------------------------------------
(* ParallelBroker runs of jobs that carry a mem_bw attribute, some of them *)
(* not positive                                                            *)

FaultMemBw == {-5, 0, 20}
FaultArrivals == {6130, 6150}

FaultProps == [num_qubits : {3}, num_shots : ShotChoices, iterations : {1},
               arrival_time : FaultArrivals, mem_bw : FaultMemBw]

FaultInit ==
    /\ \E f \in [Jobs -> FaultProps] : Started(f)
    /\ fn_in = NoCall
    /\ fn_out = NoCall

FaultNext ==
    \/ ResourceStep
    \/ StepRaises
    \/ \E j \in Jobs :
         \/ BrokerStart(j) \/ QpuReserve(j) \/ QpuFinish(j)
         \/ \E cu \in CpuUnitDraws, du \in CpuDurationDraws :
               QpuRelease(j, cu, du) \/ BrokerPollCpu(j, cu, du)
         \/ CpuUnitsGranted(j) \/ CpuUndo(j) \/ CpuMemGranted(j)
         \/ CpuFinish(j) \/ CpuUnitsReturned(j) \/ CpuReturn(j)

SpecFault == FaultInit /\ [][FaultNext]_vars

-----------------------------------------------------------------------------
(* ParallelBroker runs of a finite list of jobs that carry a mem_bw        *)
(* attribute, to the end: no maintenance process, the kernel processes     *)
(* events while there are any                                              *)

\* number of jobs in the feed of this run
MaxLiveJobs == 3

LiveJobs == 1..MaxLiveJobs

\* arrival times of the jobs, in ticks: the first two jobs take the two
\* quantum devices; a later job arrives while both are taken, and one of its
\* polls falls on the instant the first job's run ends
LiveArrivals(j) == IF j = 1 THEN {0} ELSE IF j = 2 THEN {30} ELSE {50, 80}

\* two jobs of the feed do not fit the device's memory bandwidth together
LiveMemBw == {25}

\* the later jobs ask for three qubits and run one iteration, all jobs carry
\* the same mem_bw
LiveProps == [num_qubits : QubitChoices, num_shots : ShotChoices, iterations : 1..MaxIter,
              arrival_time : UNION {LiveArrivals(j) : j \in LiveJobs}, mem_bw : LiveMemBw]

LiveInit ==
    /\ \E f \in [LiveJobs -> LiveProps] :
          /\ \A j \in LiveJobs : f[j].arrival_time \in LiveArrivals(j)
          /\ \A j \in LiveJobs : f[j].mem_bw = f[1].mem_bw
          /\ \A j \in LiveJobs \ {1} : f[j].num_qubits = 3 /\ f[j].iterations = 1
          /\ Started(f)
    /\ fn_in = NoCall
    /\ fn_out = NoCall

LiveNext ==
    \/ ResourceStep
    \/ \E j \in LiveJobs :
         \/ BrokerStart(j) \/ BrokerPollQpu(j) \/ QpuRetry(j) \/ QpuReserve(j)
         \/ QpuFinish(j)
         \/ \E cu \in CpuUnitDraws, du \in CpuDurationDraws :
               QpuRelease(j, cu, du) \/ BrokerPollCpu(j, cu, du)
         \/ CpuUnitsGranted(j) \/ CpuMemGranted(j) \/ CpuFinish(j)
         \/ CpuUnitsReturned(j) \/ CpuReturn(j)

\* Environment.run calls step() as long as the queue holds an event due before
\* `until`: weak fairness of the kernel step.  A step is enabled exactly when
\* Ready holds (every action is guarded by Resumes, and the process at the
\* head of the queue always has a continuation), which is written out here
KernelRuns == []<>(~Ready) \/ []<><<LiveNext>>_vars

\* the run is not abandoned: the kernel loop goes on
SpecLive == LiveInit /\ [][LiveNext]_vars /\ WF_vars(ResourceStep) /\ KernelRuns

-----------------------------------------------------------------------------
(* process_job called directly: MaxCallers driver processes, each waiting  *)
(* for its job's arrival time and then running process_job of a device for *)
(* that job; nothing else runs                                             *)

\* number of processes started on process_job
MaxCallers == 3

Callers == 1..MaxCallers

DirectArrivals == {0, 50}

DirectProps == [num_qubits : QubitChoices, num_shots : ShotChoices, iterations : {1},
                arrival_time : DirectArrivals]

\* every driver has yielded env.timeout(job.arrival_time); the jobs are listed
\* by arrival time
DirectInit ==
    /\ \E f \in [Callers -> DirectProps] :
          /\ \A j \in 1..(MaxCallers - 1) : f[j].arrival_time <= f[j + 1].arrival_time
          /\ Started(f)
    /\ fn_in = NoCall
    /\ fn_out = NoCall

DirectQpuStart(j) ==
    /\ Resumes(JobProc(j), "init")
    /\ \E d \in QPUs : Commit(QpuEnter(Popped, d, j))
DirectCpuStart(j, cu, du) ==
    /\ Resumes(JobProc(j), "init")
    /\ \E d \in CPUs : Commit(CpuEnter(Popped, d, j, cu, du))
DirectQpuReturn(j) ==
    Resumes(JobProc(j), "qpu_put") /\ Commit(ProcessEnd(QpuReleased(Popped, j), JobProc(j)))
DirectCpuReturn(j) == Resumes(JobProc(j), "cpu_put2") /\ Commit(ProcessEnd(Popped, JobProc(j)))

DirectNext ==
    \/ ResourceStep
    \/ \E j \in Callers :
        \/ DirectQpuStart(j) \/ QpuRetry(j) \/ QpuReserve(j) \/ QpuFinish(j)
        \/ DirectQpuReturn(j)
        \/ \E cu \in CpuUnitDraws, du \in CpuDurationDraws : DirectCpuStart(j, cu, du)
        \/ CpuUnitsGranted(j) \/ CpuMemGranted(j) \/ CpuFinish(j)
        \/ CpuUnitsReturned(j) \/ DirectCpuReturn(j)

SpecDirect == DirectInit /\ [][DirectNext]_vars

-----------------------------------------------------------------------------
(* The topology allocator on its own: callers select, reserve and release  *)
(* in any interleaving, the way concurrent process_job bodies call it      *)

\* largest N asked of select_vertices_fast
MaxSelect == 6

AllocProps == [num_qubits : 1..MaxSelect, num_shots : ShotChoices,
               iterations : {1}, arrival_time : {0}]

AllocInit ==
    /\ \E f \in [Jobs -> AllocProps] : Constructed(f)
    /\ queue = << >>
    /\ eid = 0
    /\ fn_in = NoCall
    /\ fn_out = NoCall

AllocFrame ==
    UNCHANGED <<now, queue, level, getq, putq, users, maint_lock, feed, dispatched,
                iteration, cpu_units, duration, held, alloc_ops, sel_stamp,
                phase_log, pick_log, req_time, adm_time, eid, job_records,
                req_queue, run_start, published, devices, method,
                maintenance_switch, plan>>

\* selected_vertices = select_vertices_fast(self, qubits_required, job_id)
AllocSelect(j, d) ==
    /\ pc[JobProc(j)] = "unborn"
    /\ LET r == select_vertices_fast(adj[d], color[d], d, feed[j].num_qubits) IN
       /\ fn_in' = [op |-> "select", d |-> d, N |-> feed[j].num_qubits,
                    free |-> FreeNodes(color[d], d), color |-> color[d], adj |-> adj[d]]
       /\ fn_out' = r
       /\ sel' = [sel EXCEPT ![j] = r]
       /\ dev' = [dev EXCEPT ![j] = d]
       /\ pc' = [pc EXCEPT ![JobProc(j)] = IF r.ok THEN "qpu_get" ELSE "unborn"]
    /\ UNCHANGED <<color, adj>>
    /\ AllocFrame

\* remove_connectivity(self, selected_vertices, 'red')
AllocReserve(j) ==
    /\ pc[JobProc(j)] = "qpu_get"
    /\ LET g == remove_connectivity(color[dev[j]], adj[dev[j]], dev[j], sel[j].nodes, Busy) IN
       /\ color' = [color EXCEPT ![dev[j]] = g.color]
       /\ adj' = [adj EXCEPT ![dev[j]] = g.adj]
    /\ pc' = [pc EXCEPT ![JobProc(j)] = "qpu_run"]
    /\ fn_in' = NoCall /\ fn_out' = NoCall
    /\ UNCHANGED <<sel, dev>>
    /\ AllocFrame

\* reconnect_nodes(self, selected_vertices)
AllocRelease(j) ==
    /\ pc[JobProc(j)] = "qpu_run"
    /\ LET g == reconnect_nodes(color[dev[j]], adj[dev[j]], dev[j], sel[j].nodes) IN
       /\ color' = [color EXCEPT ![dev[j]] = g.color]
       /\ adj' = [adj EXCEPT ![dev[j]] = g.adj]
    /\ pc' = [pc EXCEPT ![JobProc(j)] = "unborn"]
    /\ fn_in' = NoCall /\ fn_out' = NoCall
    /\ UNCHANGED <<sel, dev>>
    /\ AllocFrame

AllocNext ==
    \E j \in Jobs :
        \/ \E d \in QPUs : AllocSelect(j, d)
        \/ AllocReserve(j)
        \/ AllocRelease(j)

SpecAlloc == AllocInit /\ [][AllocNext]_vars

-----------------------------------------------------------------------------
(* A crowd of callers on the ring device: for each job a process waits for *)
(* the job's arrival time and then runs process_job of device 1 for it,    *)
(* as in SpecDirect; the call of select_vertices_fast that process_job     *)
(* makes is recorded with the graph and the colour map it was given        *)

\* number of callers
MaxCrowd == 8

Crowd == 1..MaxCrowd

\* the jobs of the callers, in the order of their arrival: the qubits each asks
\* for and its arrival time, one crowd per run
CrowdPlans ==
    {p \in {[num_qubits |-> <<1, 1, 1, 2>>, arrival_time |-> <<0, 50, 100, 175>>],
             [num_qubits |-> <<1, 1, 1, 2, 1, 1, 3, 3>>,
              arrival_time |-> <<0, 10, 10, 20, 30, 30, 210, 420>>]} :
        Len(p.num_qubits) <= MaxCrowd}

CrowdShots == {50, 150}

\* every driver has yielded env.timeout(job.arrival_time)
CrowdInit ==
    /\ \E p \in CrowdPlans :
          \E sh \in [1..Len(p.num_qubits) -> CrowdShots] :
             Started([j \in 1..Len(p.num_qubits) |->
                        [num_qubits |-> p.num_qubits[j], num_shots |-> sh[j],
                         iterations |-> 1, arrival_time |-> p.arrival_time[j]]])
    /\ fn_in = NoCall
    /\ fn_out = NoCall

\* select_vertices_fast(self, qubits_required, job_id) as process_job calls it
\* in state s: the device, N, and the colour map and graph of the device
SelectCall(s, d, j) ==
    [op |-> "select", d |-> d, N |-> num_qubits(s, j), free |-> FreeNodes(s.color[d], d),
     color |-> s.color[d], adj |-> s.adj[d]]

\* process_job is entered: its first select
CrowdStart(j) ==
    /\ Resumes(JobProc(j), "init")
    /\ CommitState(QpuEnter(Popped, 1, j))
    /\ fn_in' = SelectCall(Popped, 1, j)
    /\ fn_out' = sel'[j]

\* the retry loop of process_job: select again
CrowdRetry(j) ==
    /\ Resumes(JobProc(j), "qpu_retry")
    /\ CommitState(QpuRetried(Popped, j))
    /\ fn_in' = SelectCall(Popped, 1, j)
    /\ fn_out' = sel'[j]

CrowdNext ==
    \/ ResourceStep
    \/ \E j \in Crowd :
        \/ CrowdStart(j) \/ CrowdRetry(j) \/ QpuReserve(j) \/ QpuFinish(j)
        \/ DirectQpuReturn(j)

SpecCrowd == CrowdInit /\ [][CrowdNext]_vars

-----------------------------------------------------------------------------
(* ParallelBroker._pick_device_by_capacity on its own, over device lists   *)

\* largest container level of a listed device
MaxLevel == 2
\* number of devices in the list
MaxViews == 3

\* a quantum device: level within its qubit count, with or without maint_lock
QpuViews ==
    {v \in [type : {"QPU"}, level : 0..MaxLevel, mem : {0}, maint_lock : BOOLEAN,
            has_qubits : {TRUE}, nq : 1..MaxLevel] : v.level <= v.nq}

\* a CPU: two container levels, no maint_lock attribute
CpuViews ==
    [type : {"CPU"}, level : 0..MaxLevel, mem : 0..MaxLevel, maint_lock : {FALSE},
     has_qubits : {FALSE}, nq : {0}]

IdleFeed == [j \in Jobs |-> [num_qubits |-> 1, num_shots |-> 50, iterations |-> 1,
                             arrival_time |-> 0]]

PickInit ==
    /\ Constructed(IdleFeed)
    /\ queue = << >>
    /\ eid = 0
    /\ \E vs \in [1..MaxViews -> QpuViews \cup CpuViews] : fn_in = [op |-> "devices", views |-> vs]
    /\ fn_out = NoCall

PickCall(device_type, needed, req) ==
    /\ fn_in' = [op |-> "pick", device_type |-> device_type, needed |-> needed,
                 req |-> req, views |-> fn_in.views]
    /\ fn_out' = [op |-> "picked",
                  idx |-> PickDeviceByCapacity(fn_in.views, device_type, needed, req)]
    /\ UNCHANGED <<now, queue, level, getq, putq, users, color, adj, maint_lock,
                   feed, dispatched, pc, iteration, dev, sel, cpu_units, duration,
                   held, alloc_ops, sel_stamp, phase_log, pick_log, req_time, adm_time,
                   eid, job_records, req_queue, run_start, published, devices, method,
                   maintenance_switch, plan>>

\* self._pick_device_by_capacity("QPU", q_needed), q_needed = max(1, num_qubits)
PickQPU == \E req \in 1..MaxLevel : PickCall("QPU", <<Max(1, req), 0>>, req)

\* self._pick_device_by_capacity("CPU", c_needed), c_needed = (cpu_units, mem_bw)
PickCPU == \E cu \in 1..MaxLevel, bw \in 1..MaxLevel : PickCall("CPU", <<cu, bw>>, 1)

PickNext == PickQPU \/ PickCPU

SpecPick == PickInit /\ [][PickNext]_vars

-----------------------------------------------------------------------------
(* QCloud.smart_allocate_large_job: the choice of devices and the split of *)
(* the job, over lists of devices (free level, error score if the device   *)
(* was given one, whether select_vertices_fast finds the per-device share), *)
(* for a QCloud that does not print (printlog=False)                       *)

\* number of devices handed to the allocator
MaxBulkDevices == 3
\* largest error score
MaxErrorScore == 3

BulkLevels == {0, 2, 3, 5}
BulkQubits == {4, 6}

\* largest size for which select_vertices_fast finds a set on a device
MaxReach == 2

\* a device as bulk allocation sees it: container level, the error_score
\* attribute if one was set on the device (no device class defines it) and
\* the largest N for which select_vertices_fast(device, N) is not None (0:
\* none)
BulkViews ==
    [level : BulkLevels, error_score : 1..MaxErrorScore, reach : 0..MaxReach]
    \cup [level : BulkLevels, reach : 0..MaxReach]

\* hasattr(device, "error_score")
Scored(view) == "error_score" \in DOMAIN view

\* select_vertices_fast(device, N, job_id) is not None
Selectable(view, N) == 1 <= N /\ N <= view.reach

\* step 1: the devices that pass the eligibility test, in list order
EligibleDevices(views, n) ==
    SelectSeq([i \in 1..Len(views) |-> i],
              LAMBDA i : /\ views[i].level * Len(views) >= n
                         /\ Selectable(views[i], n \div Len(views)))

\* eligible_devices.append((device, selected_subgraph, device.error_score,
\* device.clops)) of an eligible device that has no error_score: AttributeError
ScoreMissing(views, elig) == \E k \in 1..Len(elig) : ~Scored(views[elig[k]])

\* the allocation function is left by the AttributeError
BulkRaised(mode) ==
    [op |-> mode, ok |-> FALSE, raised |-> TRUE, sorted |-> << >>, used |-> << >>,
     shares |-> << >>]

\* eligible_devices.sort(key=lambda x: x[2]): stable, ascending error score
SortByErrorScore(views, elig) ==
    LET rank(i) == Cardinality({k \in 1..Len(elig) :
                       \/ views[elig[k]].error_score < views[elig[i]].error_score
                       \/ /\ views[elig[k]].error_score = views[elig[i]].error_score
                          /\ k < i})
    IN [r \in 1..Len(elig) |-> elig[CHOOSE i \in 1..Len(elig) : rank(i) = r - 1]]

\* math.ceil(a / b)
CeilDiv(a, b) == (a + b - 1) \div b

MaxOf(S) == CHOOSE x \in S : \A y \in S : y <= x

\* min(len(eligible_devices), ceil(num_qubits / max level of the eligible devices))
NumDevicesToUse(views, sorted, n) ==
    LET most == MaxOf({views[sorted[i]].level : i \in 1..Len(sorted)})
        want == CeilDiv(n, most)
    IN IF Len(sorted) <= want THEN Len(sorted) ELSE want

\* every device gets the quotient
AllocatedQubitsEven(split_qubits, remainder_qubits, idx) == split_qubits

\* allocated_qubits = split_qubits + (1 if idx < remainder_qubits else 0)
AllocatedQubits(split_qubits, remainder_qubits, idx) ==
    split_qubits + (IF idx < remainder_qubits THEN 1 ELSE 0)

\* steps 1 to 4 of the fast mode up to the container gets: every eligible
\* device is used, in list order; an eligible device without error_score ends
\* the call
simple_allocate_large_job(views, n) ==
    LET elig == EligibleDevices(views, n)
    IN IF ScoreMissing(views, elig) THEN BulkRaised("fast")
       ELSE IF Len(elig) < 2
       THEN [op |-> "fast", ok |-> FALSE, raised |-> FALSE, sorted |-> elig,
             used |-> << >>, shares |-> << >>]
       ELSE LET split_qubits == n \div Len(elig)
                remainder_qubits == n % Len(elig)
            IN [op |-> "fast", ok |-> TRUE, raised |-> FALSE, sorted |-> elig, used |-> elig,
                shares |-> [k \in 1..Len(elig) |->
                              AllocatedQubits(split_qubits, remainder_qubits, k - 1)]]

\* steps 1 to 4 up to the container gets: an eligible device without
\* error_score ends the call, fewer than two eligible devices means wait and
\* retry; otherwise the devices used and their shares
smart_allocate_large_job(views, n) ==
    LET elig == EligibleDevices(views, n)
        sorted == SortByErrorScore(views, elig)
    IN IF ScoreMissing(views, elig) THEN BulkRaised("smart")
       ELSE IF Len(elig) < 2
       THEN [op |-> "smart", ok |-> FALSE, raised |-> FALSE, sorted |-> sorted,
             used |-> << >>, shares |-> << >>]
       ELSE LET k == NumDevicesToUse(views, sorted, n)
                split_qubits == n \div k
                remainder_qubits == n % k
            IN [op |-> "smart", ok |-> TRUE, raised |-> FALSE, sorted |-> sorted,
                used |-> SubSeq(sorted, 1, k),
                shares |-> [i \in 1..k |->
                              AllocatedQubits(split_qubits, remainder_qubits, i - 1)]]

-----------------------------------------------------------------------------
(* QCloud bulk allocation as a process: a caller constructs                *)
(* QCloud(env, devices, job_records_manager, allocation_mode, False) over  *)
(* quantum devices of its own and runs allocate_job(job, devices) in a     *)
(* process of its own; nothing in the repository does.  A device is handed *)
(* in with the level of its container, the error_score the caller may have *)
(* set on it and the sizes select_vertices_fast finds on it (its reach);   *)
(* bulk allocation colours no node, so the reach does not change           *)

\* the job handed to allocate_job
BulkJob == 1
\* time units left of the run when the call is made
BulkSpan == 2
\* env.now at the call, in ticks
BulkStart == (SimUntil - BulkSpan) * TicksPerUnit

\* yield self.env.timeout(1) of the eligibility loop
BulkBackoff == 1 * TicksPerUnit
\* yield self.env.timeout(0.02) of device_comm
FeedbackDelay == 2

\* the devices and the job as the call finds them: everything but the
\* processes and the event queue
Cloud(vs, n) ==
    LET ds == {Listed(i) : i \in DOMAIN vs}
        cs == {<<d, "container">> : d \in ds}
        js == {BulkJob}
    IN /\ devices = [i \in DOMAIN vs |-> Listed(i)]
       /\ method = "generator"
       /\ now = BulkStart
       /\ level = [c \in cs |-> vs[c[1] - Len(DeviceList)].level]
       /\ getq = [c \in cs |-> << >>]
       /\ putq = [c \in cs |-> << >>]
       /\ color = [d \in ds |-> << >>]
       /\ adj = [d \in ds |-> << >>]
       /\ maint_lock = [d \in ds |-> FALSE]
       /\ maintenance_switch = [d \in ds |-> FALSE]
       /\ req_queue = [d \in ds |-> << >>]
       /\ feed = [j \in js |-> [num_qubits |-> n, num_shots |-> 50, iterations |-> 1,
                                arrival_time |-> 0]]
       /\ dispatched = 0
       /\ iteration = [j \in js |-> 0]
       /\ dev = [j \in js |-> 0]
       /\ sel = [j \in js |-> NoSelection]
       /\ cpu_units = [j \in js |-> 0]
       /\ duration = [j \in js |-> 0]
       /\ held = [j \in js |-> [c \in cs |-> 0]]
       /\ alloc_ops = [d \in ds |-> 0]
       /\ sel_stamp = [j \in js |-> 0]
       /\ phase_log = [j \in js |-> << >>]
       /\ pick_log = [j \in js |-> NoPick]
       /\ req_time = [j \in js |-> 0]
       /\ adm_time = [j \in js |-> 0]
       /\ job_records = [j \in js |-> << >>]
       /\ run_start = [j \in js |-> [at |-> 0]]
       /\ published = << >>

\* the caller's process is about to make the call; no mutex is held and
\* nothing is scheduled
BulkInit ==
    /\ \E vs \in [1..MaxBulkDevices -> BulkViews], n \in BulkQubits :
          /\ Cloud(vs, n)
          /\ users = [d \in {Listed(i) : i \in DOMAIN vs} |-> {}]
          /\ fn_in = [op |-> "bulk", views |-> vs, num_qubits |-> n]
    /\ plan = [j \in {BulkJob} |-> NoPlan]
    /\ pc = [p \in {JobProc(BulkJob), CommProc(BulkJob)} |-> "unborn"]
    /\ queue = << >>
    /\ eid = 0
    /\ fn_out = NoCall

\* step 4, one device: with device.resource.request(priority=2) as req:
\*     yield device.container.get(allocated_qubits)
\* the request is made and not yielded; the generator yields the get
BulkAcquire(s, j) ==
    LET d == s.plan[j].used[s.plan[j].idx]
        allocated_qubits == s.plan[j].shares[s.plan[j].idx]
    IN ContainerGet(Request([s EXCEPT !.pc[JobProc(j)] = "b_get"], d, JobProc(j), 2, FALSE),
                    <<d, "container">>, JobProc(j), allocated_qubits)

\* steps 1 to 3, then the first device of step 4, for the devices as the
\* eligibility test finds them in state s (the level is read from the
\* container): AttributeError for an eligible device without error_score;
\* with fewer than two eligible devices timeout(1), after which the devices
\* are collected again
BulkCollect(s, j, views) ==
    LET seen == [i \in DOMAIN views |->
                    [views[i] EXCEPT !.level = s.level[<<Listed(i), "container">>]]]
        r == IF s.plan[j].mode = "fast"
             THEN simple_allocate_large_job(seen, num_qubits(s, j))
             ELSE smart_allocate_large_job(seen, num_qubits(s, j))
    IN IF r.raised THEN Raise(s, j)
       ELSE IF ~r.ok
       THEN Timeout([s EXCEPT !.pc[JobProc(j)] = "b_wait"], JobProc(j), BulkBackoff)
       ELSE BulkAcquire([s EXCEPT !.plan[j].used = [k \in 1..Len(r.used) |-> Listed(r.used[k])],
                                  !.plan[j].shares = r.shares,
                                  !.plan[j].idx = 1], j)

\* step 5: yield self.env.process(self.device_comm(job, device1, device2,
\* qubits1 + qubits2)) for the pair idx, idx + 1, feedback left at its
\* default; after the last pair step 6, yield timeout(max(process_times))
BulkCommNext(s, j) ==
    LET process_times == {calculate_process_time(s, s.plan[j].used[k], j) :
                             k \in 1..Len(s.plan[j].used)}
    IN
    IF s.plan[j].idx <= Len(s.plan[j].used) - 1
    THEN Spawn([s EXCEPT !.pc[JobProc(j)] = "b_join",
                         !.pc[CommProc(j)] = "init",
                         !.plan[j].comm =
                             [qubits |-> s.plan[j].shares[s.plan[j].idx]
                                         + s.plan[j].shares[s.plan[j].idx + 1],
                              feedback |-> FALSE]],
               CommProc(j))
    ELSE Timeout([s EXCEPT !.pc[JobProc(j)] = "b_run"], JobProc(j), MaxOf(process_times))

\* the get is granted: log devc_proc, leave the with block, next device
BulkGot(s, j) ==
    LET d == s.plan[j].used[s.plan[j].idx]
        s1 == Release(Log(s, j, <<"devc_proc">>, Round(s.now, 4)), d, JobProc(j))
    IN IF s.plan[j].idx < Len(s.plan[j].used)
       THEN BulkAcquire([s1 EXCEPT !.plan[j].idx = @ + 1], j)
       ELSE BulkCommNext([s1 EXCEPT !.plan[j].idx = 1], j)

\* device_comm up to its first yield: comm_time = qubits_required * 0.02 (in
\* ticks) is logged, then yield self.env.timeout(comm_time)
device_comm(s, j) ==
    LET comm_time == 2 * s.plan[j].comm.qubits
    IN Timeout(Log([s EXCEPT !.pc[CommProc(j)] = "c_wait"], j, <<"comm_time">>,
                   Round(comm_time, 4)),
               CommProc(j), comm_time)

\* the generator of device_comm returns: its process event is scheduled and
\* resumes the allocation that yielded it
CommReturn(s, j) ==
    Push([s EXCEPT !.pc[CommProc(j)] = "done"], 0, NORMAL,
         IF s.pc[JobProc(j)] = "b_join" THEN JobProc(j) ELSE NoProc, "end", CommProc(j))

\* after the timeout: if feedback, yield self.env.timeout(0.02)
CommWaited(s, j) ==
    IF s.plan[j].comm.feedback
    THEN Timeout([s EXCEPT !.pc[CommProc(j)] = "c_feedback"], CommProc(j), FeedbackDelay)
    ELSE CommReturn(s, j)

\* step 7, one device: yield device.container.put(allocated_qubits)
BulkPut(s, j) ==
    LET d == s.plan[j].used[s.plan[j].idx]
    IN ContainerPut([s EXCEPT !.pc[JobProc(j)] = "b_put"], <<d, "container">>, JobProc(j),
                    s.plan[j].shares[s.plan[j].idx])

\* the put is done: log devc_finish, next device; after the last, step 8
\* reads device.avg_single_qubit_error, which no device class defines:
\* AttributeError
BulkPutDone(s, j) ==
    LET s1 == Log(s, j, <<"devc_finish">>, Round(s.now, 4))
    IN IF s.plan[j].idx < Len(s.plan[j].used)
       THEN BulkPut([s1 EXCEPT !.plan[j].idx = @ + 1], j)
       ELSE Raise(s1, j)

\* yield from self.smart_allocate_large_job(job, devices), up to its first
\* yield
BulkAllocate ==
    /\ fn_out = NoCall
    /\ CommitState(BulkCollect([Cur EXCEPT !.plan[BulkJob].mode = "smart"], BulkJob,
                               fn_in.views))
    /\ fn_out' = smart_allocate_large_job(fn_in.views, fn_in.num_qubits)
    /\ UNCHANGED fn_in

\* yield from self.simple_allocate_large_job(job, devices), up to its first
\* yield
BulkFast ==
    /\ fn_out = NoCall
    /\ CommitState(BulkCollect([Cur EXCEPT !.plan[BulkJob].mode = "fast"], BulkJob,
                               fn_in.views))
    /\ fn_out' = simple_allocate_large_job(fn_in.views, fn_in.num_qubits)
    /\ UNCHANGED fn_in

BulkRetry(j) == Resumes(JobProc(j), "b_wait") /\ Commit(BulkCollect(Popped, j, fn_in.views))
BulkGranted(j) == Resumes(JobProc(j), "b_get") /\ Commit(BulkGot(Popped, j))
CommStart(j) == Resumes(CommProc(j), "init") /\ Commit(device_comm(Popped, j))
CommEnd(j) == Resumes(CommProc(j), "c_wait") /\ Commit(CommWaited(Popped, j))
CommFeedback(j) == Resumes(CommProc(j), "c_feedback") /\ Commit(CommReturn(Popped, j))
\* the allocation resumes after device_comm: next pair
CommJoin(j) ==
    Resumes(JobProc(j), "b_join") /\ Commit(BulkCommNext([Popped EXCEPT !.plan[j].idx = @ + 1], j))
\* the processing time has passed: step 7 from the first device
BulkFinish(j) ==
    Resumes(JobProc(j), "b_run") /\ Commit(BulkPut([Popped EXCEPT !.plan[j].idx = 1], j))
BulkReturn(j) == Resumes(JobProc(j), "b_put") /\ Commit(BulkPutDone(Popped, j))

BulkNext ==
    \/ BulkAllocate
    \/ BulkFast
    \/ ResourceStep
    \/ StepRaises
    \/ BulkRetry(BulkJob) \/ BulkGranted(BulkJob)
    \/ CommStart(BulkJob) \/ CommEnd(BulkJob) \/ CommJoin(BulkJob)
    \/ BulkFinish(BulkJob) \/ BulkReturn(BulkJob)

SpecBulk == BulkInit /\ [][BulkNext]_vars

-----------------------------------------------------------------------------
(* Bulk allocation over devices that carry an error score and on which     *)
(* select_vertices_fast finds every size asked for; the priority mutex of  *)
(* one of them may be held by a SerialBroker job that is inside            *)
(* process_job on it until after the end of the run                        *)

\* the SerialBroker job
HolderJob == BulkJob + 1

AcquireViews == {v \in BulkViews : Scored(v) /\ v.reach = MaxReach}

\* the processing timeout of the SerialBroker job, if there is one
HolderQueue(h) ==
    IF h = 0 THEN << >>
    ELSE <<Event(SimUntil * TicksPerUnit, NORMAL, 0, JobProc(HolderJob), "timeout", NoCont)>>

\* h is the place in the list of the device whose mutex is held, 0 for none
AcquireInit ==
    /\ \E vs \in [1..MaxBulkDevices -> AcquireViews], n \in BulkQubits, h \in 0..MaxBulkDevices :
          /\ Cloud(vs, n)
          /\ users = [d \in {Listed(i) : i \in DOMAIN vs} |->
                         IF d = Listed(h) /\ h > 0 THEN {JobProc(HolderJob)} ELSE {}]
          /\ fn_in = [op |-> "bulk", views |-> vs, num_qubits |-> n, holder |-> h]
          /\ queue = HolderQueue(h)
          /\ eid = Len(HolderQueue(h))
    /\ plan = [j \in {BulkJob} |-> NoPlan]
    /\ pc = [p \in {JobProc(BulkJob), CommProc(BulkJob), JobProc(HolderJob)} |->
               IF p = JobProc(HolderJob) THEN "qpu_run" ELSE "unborn"]
    /\ fn_out = NoCall

SpecAcquire == AcquireInit /\ [][BulkNext]_vars

-----------------------------------------------------------------------------
(* QCloud.device_comm in a process of its own: a caller runs               *)
(* env.process(qcloud.device_comm(job, device1, device2, qubits_required,  *)
(* feedback)) with either value of feedback                                *)

CommQubits == 1..MaxSelect

CommInit ==
    /\ LET v == [level |-> MaxOf(BulkLevels), error_score |-> 1, reach |-> MaxReach]
       IN Cloud(<<v, v>>, MaxSelect)
    /\ users = [d \in {Listed(1), Listed(2)} |-> {}]
    /\ \E q \in CommQubits, fb \in BOOLEAN :
          /\ plan = [j \in {BulkJob} |->
                       [NoPlan EXCEPT !.comm = [qubits |-> q, feedback |-> fb]]]
          /\ fn_in = [op |-> "device_comm", qubits_required |-> q, feedback |-> fb]
    /\ pc = [p \in {JobProc(BulkJob), CommProc(BulkJob)} |->
               IF p = CommProc(BulkJob) THEN "init" ELSE "unborn"]
    /\ queue = <<Event(BulkStart, URGENT, 0, CommProc(BulkJob), "init", NoCont)>>
    /\ eid = 1
    /\ fn_out = NoCall

CommNext ==
    \/ CommStart(BulkJob) \/ CommEnd(BulkJob) \/ CommFeedback(BulkJob)
    \/ ResourceStep

SpecComm == CommInit /\ [][CommNext]_vars

-----------------------------------------------------------------------------
(* The ledger on its own: any sequence of log_job_event calls, and the     *)
(* broker's _record_phase_metrics called on the ledger they leave          *)

\* number of log_job_event calls
MaxCalls == 3

LedgerKeys == {<<"qpu", "arrive">>, <<"qpu", "start">>, <<"qpu", "finish">>}
LedgerValues == {6100, 6150}

LedgerInit ==
    /\ Constructed(IdleFeed)
    /\ queue = << >>
    /\ eid = 0
    /\ fn_in = [op |-> "ledger", calls |-> << >>]
    /\ fn_out = NoCall

LedgerFrame ==
    UNCHANGED <<now, queue, level, getq, putq, users, color, adj, maint_lock,
                feed, dispatched, iteration, dev, sel, cpu_units, duration,
                held, alloc_ops, sel_stamp, phase_log, pick_log, req_time, adm_time,
                eid, req_queue, run_start, published, devices, method,
                maintenance_switch, plan>>

\* job_records_manager.log_job_event(job_id, event_type, timestamp)
LedgerLog(j, key, v) ==
    /\ Len(fn_in.calls) < MaxCalls
    /\ job_records' = log_job_event(job_records, j, key, v)
    /\ fn_in' = [fn_in EXCEPT !.calls =
                     Append(@, [job_id |-> j, event_type |-> key, timestamp |-> v])]
    /\ UNCHANGED <<fn_out, pc>>
    /\ LedgerFrame

\* self._record_phase_metrics(job, phase, iter_idx)
LedgerMetrics(j, phase, iter_idx) ==
    /\ fn_out = NoCall
    /\ LET s == RecordPhaseMetrics(Cur, j, phase, iter_idx) IN
       /\ job_records' = s.job_records
       /\ pc' = s.pc
       /\ fn_out' = [op |-> "metrics", job_id |-> j, phase |-> phase, iter_idx |-> iter_idx,
                     before |-> job_records, after |-> s.job_records,
                     raised |-> s.pc[JobProc(j)] = "failed"]
    /\ UNCHANGED fn_in
    /\ LedgerFrame

LedgerNext ==
    \E j \in Jobs :
        \/ \E key \in LedgerKeys, v \in LedgerValues : LedgerLog(j, key, v)
        \/ \E phase \in {"qpu", "cpu"}, i \in 0..(MaxIter - 1) : LedgerMetrics(j, phase, i)

SpecLedger == LedgerInit /\ [][LedgerNext]_vars

-----------------------------------------------------------------------------
(* Properties *)

\* job j is inside QuantumDevice.process_job / CPU.process_job
InQpuProcessJob(j) == pc[JobProc(j)] \in {"qpu_retry", "qpu_get", "qpu_run", "qpu_put"}
InCpuProcessJob(j) == pc[JobProc(j)] \in {"cpu_get1", "cpu_get2", "cpu_run", "cpu_put1", "cpu_put2"}
InProcessJob(j) == InQpuProcessJob(j) \/ InCpuProcessJob(j)

\* job j has reserved nodes on device d and not yet released them
InFlight(j, d) == dev[j] = d /\ pc[JobProc(j)] \in {"qpu_run", "qpu_put"}

ReservedNodes(d) == UNION {sel[j].nodes : j \in {k \in Jobs : InFlight(k, d)}}

\* C1: every container level stays within 0..capacity
C1_LevelInBounds == \A c \in ContIds : 0 <= level[c] /\ level[c] <= Capacity(c)

\* a request waits in a get queue because the level cannot serve it
C1_Witness ==
    \E c \in ContIds : getq[c] # << >> /\ level[c] < Head(getq[c]).amount /\ level[c] >= 0

\* C2: outside process_job a job holds nothing, and with no job inside any
\* process_job every level equals its capacity
C2_NoLeak ==
    /\ \A j \in Jobs : ~InProcessJob(j) => \A c \in ContIds : held[j][c] = 0
    /\ (\A j \in Jobs : ~InProcessJob(j)) => \A c \in ContIds : level[c] = Capacity(c)

\* a job has completed both phases and no job is inside a process_job
C2_Witness ==
    /\ \E j \in Jobs : <<"CPU", "finish", 0>> \in SeqToSet(phase_log[j])
    /\ \A j \in Jobs : ~InProcessJob(j)

\* C3: the busy nodes of a device are the nodes of its in-flight reservations
C3_BusyIsReserved == \A d \in QPUs : BusyNodes(color[d], d) = ReservedNodes(d)

\* C4: between a job's select and its reserve nothing else selects, reserves
\* or releases on that device, and the nodes it selected are still free
C4_SelectReserveAtomic ==
    \A j \in Jobs : pc[JobProc(j)] = "qpu_get" =>
        /\ alloc_ops[dev[j]] = sel_stamp[j]
        /\ sel[j].nodes \subseteq FreeNodes(color[dev[j]], dev[j])

\* C5: select_vertices_fast returns null or a set of exactly N nodes of the
\* device, never fewer or more
C5_ExactSizeOrNull ==
    fn_in.op = "select" =>
        \/ fn_out = NoSelection
        \/ /\ fn_out.ok
           /\ Cardinality(fn_out.nodes) = fn_in.N
           /\ fn_out.nodes \subseteq SeqToSet(GraphNodes(fn_in.d))

\* enough free nodes for the call, but no connected set of them: null
C5_Witness ==
    /\ fn_in.op = "select"
    /\ ~fn_out.ok
    /\ Cardinality(fn_in.free) >= fn_in.N

\* C6: with no reservation in flight on a device all its nodes are free and
\* its edges are the static edge list
C6_RestoredWhenIdle ==
    \A d \in QPUs : (\A j \in Jobs : ~InFlight(j, d)) =>
        /\ BusyNodes(color[d], d) = {}
        /\ EdgeSet(adj[d]) = StaticEdgeSet(d)

\* a device is idle again after two jobs have reserved and released on it
C6_Witness ==
    \E d \in QPUs :
        /\ \A j \in Jobs : ~InFlight(j, d)
        /\ alloc_ops[d] >= 6
        /\ \A j \in Jobs : dev[j] = d \/ <<"QPU", "finish", 0>> \in SeqToSet(phase_log[j])

\* the stamps of a job of k iterations, in order
RECURSIVE ExpectedPhases(_)
ExpectedPhases(k) ==
    IF k = 0 THEN << >>
    ELSE ExpectedPhases(k - 1) \o << <<"QPU", "start", k - 1>>, <<"QPU", "finish", k - 1>>,
                                     <<"CPU", "start", k - 1>>, <<"CPU", "finish", k - 1>> >>

IsPrefix(a, b) == Len(a) <= Len(b) /\ SubSeq(b, 1, Len(a)) = a

\* C7: phases run in the order QPU_0, CPU_0, ..., QPU_k-1, CPU_k-1; the
\* counter is the number of finished CPU phases, never exceeds k, and the
\* job is done exactly when it equals k
C7_PhaseOrder ==
    \A j \in Jobs :
        LET k == feed[j].iterations IN
        /\ IsPrefix(phase_log[j], ExpectedPhases(k))
        /\ iteration[j] = Len(phase_log[j]) \div 4
        /\ iteration[j] <= k
        /\ (pc[JobProc(j)] = "done") = (iteration[j] = k)

\* a job of two iterations has run to its end
C7_Witness ==
    \E j \in Jobs : feed[j].iterations = 2 /\ pc[JobProc(j)] = "done" /\ Len(phase_log[j]) = 8

\* C8: the device _pick_device_by_capacity returns has the requested type,
\* is not under maintenance and has the free level the phase needs (QPU:
\* qubit level and qubit count at least the job's qubits; CPU: cpu-unit level
\* and memory-bandwidth level at least the needs); its level is not 0
C8_PickQualifies ==
    (fn_in.op = "pick" /\ fn_out.idx # 0) =>
        LET v == fn_in.views[fn_out.idx] IN
        /\ v.type = fn_in.device_type
        /\ ~v.maint_lock
        /\ v.level > 0
        /\ fn_in.device_type = "QPU" => v.level >= fn_in.req /\ v.nq >= fn_in.req
        /\ fn_in.device_type = "CPU" => v.level >= fn_in.needed[1] /\ v.mem >= fn_in.needed[2]

\* a device was picked while a device of that type with a greater free level
\* was passed over because it is under maintenance, and an exhausted one
\* because its level is 0
C8_Witness ==
    /\ fn_in.op = "pick" /\ fn_out.idx # 0
    /\ \E i, k \in 1..Len(fn_in.views) :
          /\ fn_in.views[i].type = fn_in.device_type
          /\ fn_in.views[i].maint_lock
          /\ fn_in.views[i].level > fn_in.views[fn_out.idx].level
          /\ fn_in.views[k].type = fn_in.device_type
          /\ fn_in.views[k].level = 0

\* C9: the pick is a qualifying device of maximal free level (CPU: ties
\* broken by the greater memory bandwidth); it is None exactly when no
\* device qualifies
C9_PickMaximal ==
    fn_in.op = "pick" =>
        LET v == fn_in.views
            t == fn_in.device_type
            r == fn_out.idx
            ok(i) == /\ v[i].type = t
                     /\ ~v[i].maint_lock
                     /\ v[i].level >= fn_in.needed[1]
                     /\ (t = "QPU" => v[i].nq >= fn_in.req)
                     /\ (t = "CPU" => v[i].mem >= fn_in.needed[2])
        IN /\ (r = 0) <=> (\A i \in DOMAIN v : ~ok(i))
           /\ r # 0 =>
                /\ r \in DOMAIN v
                /\ ok(r)
                /\ \A k \in DOMAIN v : ok(k) => v[k].level <= v[r].level
                /\ t = "CPU" =>
                     \A k \in DOMAIN v : (ok(k) /\ v[k].level = v[r].level) => v[k].mem <= v[r].mem

\* two CPUs qualify with the same level; the later one of the list, with the
\* greater memory bandwidth, is picked
C9_Witness ==
    /\ fn_in.op = "pick"
    /\ fn_in.device_type = "CPU"
    /\ fn_out.idx # 0
    /\ \E k \in 1..(fn_out.idx - 1) :
          /\ fn_in.views[k].type = "CPU"
          /\ fn_in.views[k].level = fn_in.views[fn_out.idx].level
          /\ fn_in.views[k].mem >= fn_in.needed[2]
          /\ fn_in.views[k].mem < fn_in.views[fn_out.idx].mem

\* C10: a phase is admitted a whole number of half units after its request
C10_PollQuantum ==
    \A j \in Jobs : InProcessJob(j) =>
        /\ adm_time[j] >= req_time[j]
        /\ (adm_time[j] - req_time[j]) % HalfUnit = 0

\* a job was admitted after polling, while the clock is off the half-unit grid
C10_Witness ==
    \E j \in Jobs : InProcessJob(j) /\ adm_time[j] - req_time[j] >= 2 * HalfUnit
                    /\ req_time[j] % HalfUnit # 0

\* the values logged under an event name, in the order they were logged
HasKey(row, key) == KeyIndex(row, key) # 0
Values(row, key) == IF HasKey(row, key) THEN row[KeyIndex(row, key)].vals ELSE << >>
Last(q) == q[Len(q)]

\* C11: a job of k iterations that ran to completion has qpu_wait_i and
\* cpu_wait_i in its record for every i < k and exactly one makespan, equal
\* to the cpu_finish stamp of the last iteration minus the arrival stamp
C11_MetricsAndMakespan ==
    \A j \in Jobs :
        pc[JobProc(j)] = "done" =>
            LET row == job_records[j] IN
            /\ \A i \in 0..(feed[j].iterations - 1) :
                   HasKey(row, <<"qpu", "wait", i>>) /\ HasKey(row, <<"cpu", "wait", i>>)
            /\ Len(Values(row, <<"makespan">>)) = 1
            /\ Values(row, <<"makespan">>)[1] =
                   Last(Values(row, <<"cpu", "finish">>)) - Values(row, <<"arrival">>)[1]

PhaseFinished(j, phase, i) ==
    \E k \in 1..Len(phase_log[j]) : phase_log[j][k] = <<phase, "finish", i>>

\* C12: for every completed phase of iteration i the record holds
\* <phase>_wait_i = start_i - arrive_i, <phase>_svc_i = finish_i - start_i and
\* <phase>_turn_i = finish_i - arrive_i, the stamps being those of iteration i
C12_PhaseMetricsOfSameIteration ==
    \A j \in Jobs : \A phase \in {"QPU", "CPU"} : \A i \in 0..(MaxIter - 1) :
        PhaseFinished(j, phase, i) =>
            LET row == job_records[j]
                ph == PhaseName(phase)
                arrive_i == Values(row, <<ph, "arrive">>)[i + 1]
                start_i == Values(row, <<ph, "start">>)[i + 1]
                finish_i == Values(row, <<ph, "finish">>)[i + 1]
            IN /\ Values(row, <<ph, "wait", i>>) = <<start_i - arrive_i>>
               /\ Values(row, <<ph, "svc", i>>) = <<finish_i - start_i>>
               /\ Values(row, <<ph, "turn", i>>) = <<finish_i - arrive_i>>

RECURSIVE SumHeld(_, _)
SumHeld(js, c) ==
    IF js = {} THEN 0
    ELSE LET j == CHOOSE x \in js : TRUE IN held[j][c] + SumHeld(js \ {j}, c)

\* C13: when the memory-bandwidth get of CPU.process_job raises after the cpu
\* units were acquired, the job's cpu units are back in the container when the
\* exception leaves process_job, and the job has taken no memory bandwidth:
\* both levels are what the other jobs' holdings leave
C13_UnitsPutBackOnFailure ==
    \A j \in Jobs :
        pc[JobProc(j)] \in {"failed", "raised"} =>
            /\ \A c \in ContIds : held[j][c] = 0
            /\ \A d \in CPUs :
                 /\ level[<<d, "container">>] = cpu_capacity(d) - SumHeld(Jobs, <<d, "container">>)
                 /\ level[<<d, "mem_bw">>] = mem_bw_capacity(d) - SumHeld(Jobs, <<d, "mem_bw">>)

\* a job has failed in the except block while another job holds cpu units
C13_Witness ==
    \E j \in Jobs :
        /\ pc[JobProc(j)] = "failed"
        /\ GetRaises(mem_bw(Cur, j))
        /\ cpu_units[j] > 0
        /\ \E k \in Jobs \ {j} : held[k][<<dev[j], "container">>] > 0

\* C17: under the Serial broker a job inside process_job holds the device's
\* priority mutex, so no two jobs are inside process_job on one device
C17_OneJobPerDevice ==
    /\ \A j \in Jobs : InQpuProcessJob(j) => users[dev[j]] = {JobProc(j)}
    /\ \A j, k \in Jobs :
           (j # k /\ InQpuProcessJob(j) /\ InQpuProcessJob(k)) => dev[j] # dev[k]

\* a job is inside process_job while another job waits for the same device
C17_Witness ==
    \E j, k \in Jobs :
        /\ j # k
        /\ pc[JobProc(j)] = "qpu_run"
        /\ pc[JobProc(k)] = "s_req"
        /\ dev[k] = dev[j]
        /\ \E i \in 1..Len(req_queue[dev[j]]) : req_queue[dev[j]][i].proc = JobProc(k)

\* C14: while the maintenance process of a device is suspended for
\* maintenance_duration it holds the device's priority mutex, alone
C14_MaintenanceHoldsMutex ==
    \A d \in QPUs : pc[MaintProc(d)] = "m_work" => users[d] = {MaintProc(d)}

\* C15: no job is admitted on a quantum device while its maint_lock is true:
\* the reserve (remove_connectivity) of a job takes effect outside the
\* maintenance windows of its device
C15_NoAdmissionUnderMaintenance ==
    [][\A j \in Jobs :
          (pc[JobProc(j)] = "qpu_get" /\ pc'[JobProc(j)] = "qpu_run") => ~maint_lock[dev[j]]]_vars

\* the instants at which the maintenance process of d is due to be resumed
MaintDue(d) ==
    {queue[i].t : i \in {k \in 1..Len(queue) : queue[k].proc = MaintProc(d)}}

\* the run has been ended by an exception
RunRaised == \E p \in DOMAIN pc : pc[p] = "raised"

DueAt(p, t) == \E i \in 1..Len(queue) : queue[i].proc = p /\ queue[i].t = t

C20_ScheduleOrder ==
    /\ queue # << >> => now <= Head(queue).t
    /\ \A i, k \in 1..Len(queue) :
           (i < k /\ queue[i].t = queue[k].t) => queue[i].eid < queue[k].eid

RECURSIVE PrefixLevel(_, _, _)
PrefixLevel(views, order, k) ==
    IF k = 0 THEN 0 ELSE views[order[k]].level + PrefixLevel(views, order, k - 1)

\* C19: the devices smart bulk allocation uses are the shortest prefix of the
\* eligible devices, sorted by ascending error score, whose combined free
\* level is at least the job's qubit requirement
C19_ShortestCoveringPrefix ==
    (fn_out.op = "smart" /\ fn_out.ok) =>
        LET k == Len(fn_out.used) IN
        /\ fn_out.used = SubSeq(fn_out.sorted, 1, k)
        /\ PrefixLevel(fn_in.views, fn_out.sorted, k) >= fn_in.num_qubits
        /\ \A m \in 1..(k - 1) : PrefixLevel(fn_in.views, fn_out.sorted, m) < fn_in.num_qubits

\* the place of process p in a queue of waiting requests, 0 when it is not there
WaitingAt(q, p) ==
    IF \E i \in 1..Len(q) : q[i].proc = p THEN CHOOSE i \in 1..Len(q) : q[i].proc = p ELSE 0

\* C21: a get is never granted while an earlier get on the same container is
\* still waiting: in a step that grants units of a container to a job, every
\* request that was queued on it ahead of that job's request has been granted
\* too, whatever the amounts
C21_GetsGrantedInArrivalOrder ==
    [][\A c \in ContIds : \A j \in DOMAIN held :
          held'[j][c] > held[j][c] =>
              LET q == getq[c]
                  at == WaitingAt(q, JobProc(j))
                  ahead == IF at = 0 THEN 1..Len(q) ELSE 1..(at - 1)
              IN \A i \in ahead : WaitingAt(getq'[c], q[i].proc) = 0]_vars

\* a request waits behind an earlier, larger one although the level could
\* serve it
C21_Witness ==
    \E c \in ContIds :
        /\ Len(getq[c]) >= 2
        /\ getq[c][1].amount > level[c]
        /\ getq[c][2].amount <= level[c]
        /\ getq[c][2].amount < getq[c][1].amount

\* how many of the first k notifications are of this type, device and job
Published(k, type, d, j) ==
    Cardinality({i \in 1..k : /\ published[i].type = type
                              /\ published[i].device = d
                              /\ published[i].job_id = j})

\* C22: every phase a job runs on a device publishes one device_start and,
\* later, one device_finish with that device and that job: a device_finish
\* always follows a device_start of the same device and job that no earlier
\* device_finish has answered, and a job that has run to its end has as many
\* of the one as of the other on every device
C22_StartThenFinish ==
    /\ \A k \in 1..Len(published) :
           published[k].type = "device_finish" =>
               Published(k - 1, "device_start", published[k].device, published[k].job_id)
                   > Published(k - 1, "device_finish", published[k].device, published[k].job_id)
    /\ \A j \in DOMAIN feed : pc[JobProc(j)] = "done" =>
           \A d \in Devices :
               /\ Published(Len(published), "device_start", d, j)
                      = Published(Len(published), "device_finish", d, j)
               /\ d = dev[j] => Published(Len(published), "device_finish", d, j) >= 1

\* C30: device_finish is published only after the job has returned its units
\* and, on a quantum device, released its nodes: a job whose device_finish
\* was published at this instant and that has not run since holds no unit of
\* that device and none of its nodes is reserved
C30_FinishAfterRelease ==
    \A j \in DOMAIN feed :
        (/\ pc[JobProc(j)] \in {"qpu_put", "cpu_put1"}
         /\ \E k \in 1..Len(published) :
                published[k] = [type |-> "device_finish", device |-> dev[j], job_id |-> j,
                                timestamp |-> Round(now, 2)])
        => /\ \A c \in ContIds : c[1] = dev[j] => held[j][c] = 0
           /\ dev[j] \in QPUs => sel[j].nodes \cap BusyNodes(color[dev[j]], dev[j]) = {}

\* the values the calls so far have logged for job j under a name, in order
LoggedValues(calls, j, key) ==
    LET cs == SelectSeq(calls, LAMBDA c : c.job_id = j /\ c.event_type = key)
    IN [i \in 1..Len(cs) |-> cs[i].timestamp]

\* C23: the ledger is append-only: after any sequence of log_job_event calls
\* the entry of every job and name holds exactly the values logged for them,
\* in logging order, as a scalar after one call and as a list after two or
\* more; a name never logged has no entry, no name has two entries
C23_LedgerAppendOnly ==
    fn_in.op = "ledger" =>
        \A j \in Jobs :
            /\ \A key \in LedgerKeys :
                   LET vs == LoggedValues(fn_in.calls, j, key) IN
                   /\ Values(job_records[j], key) = vs
                   /\ HasKey(job_records[j], key) <=> Len(vs) >= 1
                   /\ HasKey(job_records[j], key) =>
                          job_records[j][KeyIndex(job_records[j], key)].scalar = (Len(vs) = 1)
            /\ \A i, k \in 1..Len(job_records[j]) :
                   /\ job_records[j][i].key \in LedgerKeys
                   /\ i # k => job_records[j][i].key # job_records[j][k].key

\* one name of a job holds a list of three values
C23_Witness ==
    /\ fn_in.op = "ledger"
    /\ \E j \in Jobs, key \in LedgerKeys :
          /\ Len(Values(job_records[j], key)) = MaxCalls
          /\ ~job_records[j][KeyIndex(job_records[j], key)].scalar
          /\ Values(job_records[j], key)[1] # Values(job_records[j], key)[2]

\* the stamps of a phase that a job's record lacks
MissingStamps(row, phase) ==
    {k \in {"arrive", "start", "finish"} : ~HasKey(row, <<phase, k>>)}

\* C24: when _record_phase_metrics is called for a phase whose arrive, start
\* or finish stamp is absent, it writes no entry, raises nothing and leaves
\* the ledger as it was; the job goes on
C24_MissingStampsSkipped ==
    fn_out.op = "metrics" =>
        (MissingStamps(fn_out.before[fn_out.job_id], fn_out.phase) # {} =>
            /\ fn_out.after = fn_out.before
            /\ ~fn_out.raised
            /\ pc[JobProc(fn_out.job_id)] # "failed")

\* the metrics of a phase were asked for with its arrive and start stamps
\* logged and its finish stamp absent
C24_Witness ==
    /\ fn_out.op = "metrics"
    /\ MissingStamps(fn_out.before[fn_out.job_id], fn_out.phase) = {"finish"}
    /\ fn_out.after = fn_out.before

\* the nodes of S reachable from R through edges of E inside S
RECURSIVE ReachIn(_, _, _)
ReachIn(E, S, R) ==
    LET more == {v \in S \ R : \E u \in R : {u, v} \in E} IN
    IF more = {} THEN R ELSE ReachIn(E, S, R \cup more)

ConnectedIn(E, S) == S = {} \/ \E u \in S : ReachIn(E, S, {u}) = S

\* C25: a selection that is returned consists of nodes that were free-coloured
\* at the call and induces a connected subgraph of the device's topology
C25_FreeAndConnected ==
    (fn_in # NoCall /\ fn_in.op = "select" /\ fn_out.ok) =>
        /\ fn_out.nodes \subseteq fn_in.free
        /\ ConnectedIn(StaticEdgeSet(fn_in.d), fn_out.nodes)

\* the free nodes a breadth-first traversal from start reaches, start included
FreeReached(A, cm, d, start) ==
    {start} \cup {v \in SeqToSet(BfsOrder(A, <<start>>, {start}, << >>)) : ColorOf(cm, d, v) = Free}

\* g is the start node with the free nodes the traversal from it reaches first
BuiltFrom(g, A, cm, d, N, start) ==
    LET reached == BfsOrder(A, <<start>>, {start}, << >>)
        free == FreeReached(A, cm, d, start)
    IN /\ start \in g
       /\ g \subseteq free
       /\ Cardinality(g) = N
       /\ \A v \in g \ {start} : \A u \in free \ {start} :
              IndexOf(reached, u) < IndexOf(reached, v) => u \in g

\* the free start nodes, by position in graph order, whose traversal yields N free nodes
YieldingStarts(A, cm, d, N) ==
    LET starts == SelectSeq(GraphNodes(d), LAMBDA n : ColorOf(cm, d, n) = Free)
    IN {i \in 1..Len(starts) : Cardinality(FreeReached(A, cm, d, starts[i])) >= N}

\* C26: select_vertices_fast returns the set built from the first free start node,
\* in graph order, whose breadth-first traversal yields N free nodes; it returns
\* null exactly when fewer than N nodes are free or no start node yields N
C26_FirstYieldingStart ==
    (fn_in # NoCall /\ fn_in.op = "select") =>
        LET starts == SelectSeq(GraphNodes(fn_in.d),
                                LAMBDA n : ColorOf(fn_in.color, fn_in.d, n) = Free)
            good == YieldingStarts(fn_in.adj, fn_in.color, fn_in.d, fn_in.N)
        IN IF Cardinality(fn_in.free) < fn_in.N \/ good = {}
           THEN fn_out = NoSelection
           ELSE /\ fn_out.ok
                /\ BuiltFrom(fn_out.nodes, fn_in.adj, fn_in.color, fn_in.d, fn_in.N,
                             starts[CHOOSE i \in good : \A k \in good : i <= k])

\* a selection built from a later start node: the first free node does not yield N
C26_Witness ==
    /\ fn_in # NoCall /\ fn_in.op = "select" /\ fn_out.ok
    /\ 1 \notin YieldingStarts(fn_in.adj, fn_in.color, fn_in.d, fn_in.N)

\* the devices eligible as ceil(requirement / number of devices) defines it
EligibleByCeil(views, n) ==
    LET share == CeilDiv(n, Len(views))
    IN {i \in 1..Len(views) : views[i].level >= share /\ Selectable(views[i], share)}

\* C27: bulk allocation goes past its eligibility loop exactly when at least two
\* devices are eligible, a device being eligible iff its free level is at least
\* ceil(requirement / number of devices) and select_vertices_fast finds a set of
\* that size on it; otherwise it waits one time unit and collects again (of
\* the calls that no missing error_score has ended)
C27_ProceedsOnTwoEligible ==
    (fn_out # NoCall /\ fn_out.op \in {"smart", "fast"} /\ ~fn_out.raised) =>
        (fn_out.ok <=> Cardinality(EligibleByCeil(fn_in.views, fn_in.num_qubits)) >= 2)

RECURSIVE SumShares(_)
SumShares(shares) == IF shares = << >> THEN 0 ELSE Head(shares) + SumShares(Tail(shares))

\* C28: fast bulk allocation uses every eligible device, the shares add up to the
\* job's qubit requirement, two shares differ by at most 1 and a larger share
\* never comes after a smaller one in list order
C28_EvenSplitOverAllEligible ==
    (fn_out # NoCall /\ fn_out.op = "fast" /\ fn_out.ok) =>
        LET views == fn_in.views
            n == fn_in.num_qubits
            shares == fn_out.shares
        IN /\ \A i \in 1..Len(views) :
                  (views[i].level * Len(views) >= n /\ Selectable(views[i], n \div Len(views)))
                      => \E k \in 1..Len(fn_out.used) : fn_out.used[k] = i
           /\ Len(shares) = Len(fn_out.used)
           /\ \A k \in 1..(Len(fn_out.used) - 1) : fn_out.used[k] < fn_out.used[k + 1]
           /\ SumShares(shares) = n
           /\ \A a, b \in 1..Len(shares) : shares[a] - shares[b] <= 1
           /\ \A a, b \in 1..Len(shares) : a < b => shares[a] >= shares[b]

\* a fast allocation over three devices with a remainder: shares 2, 1, 1
C28_Witness ==
    /\ fn_out # NoCall /\ fn_out.op = "fast" /\ fn_out.ok
    /\ Len(fn_out.used) = 3
    /\ fn_out.shares[1] > fn_out.shares[3]

\* C29: bulk allocation takes qubit units from a device's container only while
\* it holds that device's priority mutex, never while another process (a
\* SerialBroker job or maintenance) holds it
C29_UnitsUnderMutex ==
    [][\A i \in DOMAIN fn_in.views :
          LET d == Listed(i)
              c == <<d, "container">>
          IN held'[BulkJob][c] > held[BulkJob][c] => users'[d] = {JobProc(BulkJob)}]_vars

\* the communication time the allocation order predicts, in ticks: for each
\* adjacent pair 0.02 per qubit of the two shares plus the fixed feedback delay
RECURSIVE PairwiseCommTime(_, _)
PairwiseCommTime(shares, feedback_delay) ==
    IF Len(shares) < 2 THEN 0
    ELSE 2 * (shares[1] + shares[2]) + feedback_delay
         + PairwiseCommTime(Tail(shares), feedback_delay)

\* C31: in bulk allocation the time between the last acquisition and the start
\* of processing is the sum over the adjacent pairs, in allocation order, of
\* 0.02 * (q_i + q_{i+1}) + 0.02
C31_CommunicationTime ==
    [][(pc[JobProc(BulkJob)] # "b_run" /\ pc'[JobProc(BulkJob)] = "b_run") =>
          now' - Last(Values(job_records'[BulkJob], <<"devc_proc">>))
              = PairwiseCommTime(plan'[BulkJob].shares, 2)]_vars

\* what a device owns: its semaphore levels, its priority mutex, and for a
\* quantum device its maint_lock, colour map and graph edges
DeviceState(d) ==
    [levels |-> [c \in {k \in ContIds : k[1] = d} |-> level[c]],
     users |-> users[d],
     requests |-> req_queue[d],
     maint_lock |-> IF d \in QPUs THEN maint_lock[d] ELSE FALSE,
     color |-> IF d \in QPUs THEN color[d] ELSE << >>,
     edges |-> IF d \in QPUs THEN EdgeSet(adj[d]) ELSE {}]

\* C32: a step of process_job on device D for job j leaves the state of every
\* other device unchanged
C32_OtherDevicesUnchanged ==
    [][\A j \in DOMAIN dev :
          (queue # << >> /\ Head(queue).proc = JobProc(j)) =>
              \A d \in Devices \ {dev'[j]} : DeviceState(d)' = DeviceState(d)]_vars

\* two callers are inside process_job on different devices, one of them with
\* nodes reserved, while the other device's state differs from its initial one
C32_Witness ==
    \E j, k \in DOMAIN dev :
        /\ dev[j] \in QPUs /\ pc[JobProc(j)] = "qpu_run"
        /\ BusyNodes(color[dev[j]], dev[j]) # {}
        /\ dev[k] \in Devices \ {dev[j]} /\ InProcessJob(k)
        /\ level[<<dev[k], "container">>] < Capacity(<<dev[k], "container">>)

\* C33: on every quantum device the node sets of any two jobs that have
\* reserved and not yet released are disjoint
C33_DisjointReservations ==
    \A d \in QPUs : \A j, k \in Jobs :
        (j # k /\ InFlight(j, d) /\ InFlight(k, d)) => sel[j].nodes \cap sel[k].nodes = {}

\* C34: an edge of the static edge list is in the current graph exactly when
\* both endpoints are free or both belong to the same in-flight reservation
C34_EdgesFollowReservations ==
    \A d \in QPUs : \A e \in StaticEdgeSet(d) :
        (e \in EdgeSet(adj[d])) <=>
            \/ e \subseteq FreeNodes(color[d], d)
            \/ \E j \in Jobs : InFlight(j, d) /\ e \subseteq sel[j].nodes

\* the latest value logged for job j under an event name
LastStamp(j, key) == Last(Values(job_records[j], key))

\* C35: for a phase the broker runs, the <phase>_start stamp is not earlier
\* than the <phase>_arrive stamp nor than the instant the job acquired its
\* resources on the device
C35_StartNotBeforeAcquisition ==
    \A j \in Jobs :
        /\ pc[JobProc(j)] = "qpu_run" =>
              /\ LastStamp(j, <<"qpu", "start">>) >= LastStamp(j, <<"qpu", "arrive">>)
              /\ LastStamp(j, <<"qpu", "start">>) >= run_start[j].at
        /\ pc[JobProc(j)] = "cpu_run" =>
              /\ LastStamp(j, <<"cpu", "start">>) >= LastStamp(j, <<"cpu", "arrive">>)
              /\ LastStamp(j, <<"cpu", "start">>) >= run_start[j].at

\* process p waits in the get queue of container c
BlockedOn(p, c) == \E i \in DOMAIN getq[c] : getq[c][i].proc = p

\* C36: what a compute device acquires for a job does not exceed what the
\* broker found free on it when it selected the device, and a job admitted to
\* a CPU phase never waits in the get queue of cpu units or memory bandwidth
C36_CpuAcquiresWithoutBlocking ==
    \A j \in Jobs : InCpuProcessJob(j) =>
        /\ pick_log[j].phase = "CPU"
        /\ cpu_units[j] <= pick_log[j].views[pick_log[j].idx].level
        /\ mem_bw(Cur, j) <= pick_log[j].views[pick_log[j].idx].mem
        /\ ~BlockedOn(JobProc(j), <<dev[j], "container">>)
        /\ ~BlockedOn(JobProc(j), <<dev[j], "mem_bw">>)

\* job j can be served: some quantum device has enough qubits, some compute
\* device has enough memory bandwidth and the cpu units the broker asks for
Servable(j) ==
    /\ feed[j].iterations >= 1
    /\ \E d \in QPUs : feed[j].num_qubits <= number_of_qubits(d)
    /\ \E d \in CPUs : /\ CpuNeeds(Cur, j)[1] <= cpu_capacity(d)
                       /\ CpuNeeds(Cur, j)[2] <= mem_bw_capacity(d)

\* C37: with a finite feed and no maintenance every servable job eventually
\* completes all its iterations under the capacity-aware broker
C37_EveryJobCompletes ==
    \A j \in LiveJobs :
        <>(Servable(j) => (pc[JobProc(j)] = "done" /\ iteration[j] = feed[j].iterations))

\* a job holds cpu units while it waits in the get queue of memory bandwidth
C37_Witness ==
    \E j \in LiveJobs : \E d \in CPUs :
        /\ Servable(j)
        /\ held[j][<<d, "container">>] > 0
        /\ BlockedOn(JobProc(j), <<d, "mem_bw">>)

\* C38: bulk allocation (fast and smart) asks a device for no more qubit units
\* than the free level that device had when it was found eligible
C38_SharesWithinEligibleLevel ==
    (fn_out # NoCall /\ fn_out.ok) =>
        \A k \in 1..Len(fn_out.used) :
            fn_out.shares[k] <= fn_in.views[fn_out.used[k]].level

\* the feeds that differ from f in the priority values only
PriorityVariants(f) ==
    {g \in [DOMAIN f -> PrioProps] :
        \A j \in DOMAIN f : g[j] = [f[j] EXCEPT !.priority = g[j].priority]}

\* a state with the priority values of its jobs blanked
WithoutPriority(s) ==
    [s EXCEPT !.feed = [j \in DOMAIN s.feed |-> [s.feed[j] EXCEPT !.priority = 0]]]

====
